---- MODULE Spec2Model ----
(***************************************************************************)
(* The iterative research loop of gauntlet: the LangGraph workflow built   *)
(* by ResearchOrchestrator._build_graph (orchestrator.py), its node        *)
(* functions, the state reducers of ResearchState (state.py) and the       *)
(* ResearchWorker thread that consumes the event stream (worker.py).       *)
(*                                                                         *)
(* One superstep of the graph is one action, except the discovery          *)
(* superstep, whose two tasks (web_search_node, academic_node) start       *)
(* together and finish in either order.  An action of a node covers the    *)
(* node call, the event the stream yields for it, the worker's handling of *)
(* that event (stop check, signals) and, when the superstep is complete,   *)
(* the application of the superstep's writes to the state.                 *)
(***************************************************************************)
EXTENDS Integers, Sequences, FiniteSets, TLC

\* ------------------------------------------------------------------ bounds
MaxIterBound == 2      \* max_iterations ranges over 0..MaxIterBound
MaxInitQ     == 2      \* questions in the initial state: 0..MaxInitQ
MaxDecompose == 1      \* questions returned by one Decompose call
MaxSrc       == 1      \* sources returned by one discovery branch
MaxGaps      == 1      \* gaps returned by one GapAnalyzer call
GuiSteps     == 5      \* the "Global Safety Limit" setting of a research started in the GUI
MaxRows      == 3      \* rows of the plan editor's list
MaxCandidates == 2     \* candidates handed to one call of SourceQualityAgent.run
MaxScore     == 1      \* a score the model gives ranges over 0..MaxScore
MaxDelay     == 1      \* SourceManager.requested_delay ranges over 1..MaxDelay ticks
MaxClock     == 5      \* the clock runs from 0 to MaxClock ticks
MaxAgentQ    == 2      \* questions handed to one call of a discovery agent
MaxQueriesPerQ == 2    \* settings "search_queries_per_question"
MaxResultsPerQ == 3    \* "search_results_per_query" ranges over 1..MaxResultsPerQ
MaxDepthArg  == 4      \* the depth argument ranges over 1..MaxDepthArg
MaxHits      == 1      \* results one request returns, at most
MaxQDepth    == 1      \* question depth and max_gap_iterations range over 0..MaxQDepth
MaxFairCalls == 2      \* calls of _wait_for_slot in the runs checked for progress
MaxFairClock == 3      \* and the ticks after which their clock may stop
MaxTokens    == 1      \* the tokens one delta reports for a key: 0..MaxTokens
MaxLlmCalls  == 2      \* LLM calls of one discovery node before it collects
MaxSynthQ    == 3      \* questions handed to synthesis_node, and their ids: 1..MaxSynthQ
MaxCalls     == 3      \* calls of _wait_for_slot, all threads together

\* ------------------------------------------------------- program constants
DefaultRecursionLimit == 50   \* worker.py: extra_data.get("recursion_limit", 50)
DefaultMaxGapIterations == 3  \* settings "max_gap_iterations"
MaxAssess == 20               \* agents.py: max_assess = 20
ContinueSteps == 20           \* gauntlet.py: self.global_recursion_limit += 20

Texts == {"b"}                \* a question text a model call may produce
FallbackText == "overview"    \* "General overview of {topic}"
InitText == "a"               \* the text of a question of the approved plan
Urls == {"u1"}                \* a URL either branch may return
GapIds == {1, 2}              \* the question ids a gap may name
None == 0                     \* parent_id None

\* all sequences over S of length 0..n
RECURSIVE SeqsUpTo(_, _)
SeqsUpTo(S, n) ==
    IF n = 0 THEN {<<>>}
    ELSE LET shorter == SeqsUpTo(S, n - 1)
         IN  shorter \cup {Append(s, x) : s \in {t \in shorter : Len(t) = n - 1}, x \in S}

Range(s) == {s[i] : i \in 1..Len(s)}

VARIABLES
    pc,                 \* the graph's next superstep, or "END" / "halted"
    step,               \* supersteps executed in this run
    research_questions, \* ResearchState.research_questions
    identified_gaps,    \* ResearchState.identified_gaps
    iteration_count,    \* ResearchState.iteration_count
    sources,            \* ResearchState.sources
    final_report,       \* ResearchState.final_report: the ids of its sections
    is_complete,        \* ResearchState.is_complete
    max_iterations,     \* settings parameters.max_iterations
    recursion_limit,    \* run_stream(recursion_limit=...)
    writeOrder,         \* the task order in which a superstep's writes are applied
    is_running,         \* ResearchWorker._is_running
    webSt, acadSt,      \* the two discovery tasks: "idle", "running", "done"
    web_out, acad_out,  \* the "sources" each discovery task returned
    signal,             \* the worker's terminal signal, "none" while it runs
    emitted,            \* node names whose output the worker has emitted
    reportEmitted,      \* report_signal was emitted
    \* history variables
    gapPasses,          \* completed passes through gap_analysis_node
    kgRuns,             \* executions of knowledge_graph_node
    passStartIter,      \* iteration_count when the current pass entered Planning
    lastDecision,       \* the last value should_continue returned
    stopInWeb,          \* Stop() was invoked while web_search_node was executing
    firstDone,          \* the discovery task that finished first in this pass
    sourcesAtFanOut,    \* sources when the discovery superstep started
    returned,           \* how often each (url, type) was returned by a branch
    completedNodes,     \* node calls that returned, in the order of their events
    \* the GUI (gauntlet.py, GauntletUI)
    current_research_state, \* research_questions of GauntletUI.current_research_state
    generated_report,   \* the report of a "generate_now" worker
    \* the rate limiter (source_manager.py, SourceManager)
    clock,              \* time.perf_counter(), in ticks
    requested_delay,    \* SourceManager.requested_delay, in ticks
    next_available_time,\* SourceManager.next_available_time
    callers,            \* each calling thread's position in _wait_for_slot
    slots,              \* the time slots reserved so far, in reservation order
    returns,            \* the times at which calls of _wait_for_slot returned
    lock,               \* SourceManager._lock: "free" or the thread that holds it
    budget,             \* the calls and the clock ticks the modelled run is given
    \* the plan editor (gauntlet.py, PlanEditorWidget)
    list_widget,        \* the q_data of the rows of PlanEditorWidget.list_widget
    \* one call of SourceQualityAgent.run (agents.py)
    candidates,         \* the argument: what the model answers for each candidate
    cursor,             \* candidates handled so far by the loop
    scored_sources,     \* the list the call is building
    total_score,        \* the sum it accumulates
    average_score,      \* the returned average, NotReturned while the call runs
    \* one call of extract_json_from_text (utils.py)
    extract_text,       \* the argument: what each parser of the chain finds in it
    parser,             \* the parser the call is at, 0 before the call
    result,             \* what the call returned, NoResult while it runs
    \* one call of InitialSearchAgent.run or AcademicSpecialistAgent.run (agents.py)
    agent,              \* "web" or "academic", "off" when no call is modelled
    depth,              \* the depth argument
    results_per_q,      \* search_results_per_query / academic_papers_per_query
    questions,          \* the number of questions in the argument
    q_index,            \* the question the outer loop is at, 0 before the loop
    valid_queries,      \* the number of queries of the current question
    query_index,        \* the query the inner loop is at
    apc,                \* the call's position
    all_results,        \* the number of results collected so far
    rounds,             \* the requests issued for the current query, in order
    \* history variables
    reserved,           \* _wait_for_slot was called since the last request
    unreserved,         \* some request went out without a reservation of its own
    started,            \* per question, the queries whose first request was reached
    planned,            \* per question, the queries generated for it
    \* one pass of the node functions over a given state (orchestrator.py)
    max_gap_iterations, \* settings parameters.max_gap_iterations
    min_quality_score,  \* settings parameters.min_quality_score, in tenths
    node_questions,     \* state["research_questions"] the nodes are called with
    active_questions,   \* per node, the question ids it handed to its agent
    quality_sources,    \* quality["sources"]: each score in tenths, snippet non-empty or not
    academic_sources,   \* the sources the academic agent returned
    vector_store,       \* the sources added to the index
    \* the token_usage channel and its reducer merge_usage (state.py)
    usage_pc,           \* "nodes" while the superstep's nodes return, then "writes"
    usage_heap,         \* the nested count dicts allocated so far, by reference
    token_usage,        \* ResearchState.token_usage: key -> reference
    pending_writes,     \* the token_usage deltas the superstep's nodes returned
    \* history variables
    usage_ledger,       \* per key, the plain sum of the deltas merged so far
    writes_applied,     \* calls of merge_usage in this superstep
    \* the token trackers and the two discovery threads (utils.py, orchestrator.py)
    delta_usage,        \* per tracker, ModelTokenTracker.delta_usage: key -> reference
    tracker_heap,       \* the nested count dicts of the trackers, by reference
    node_threads,       \* per discovery node, its position and its local variables
    \* history variable
    recorded,           \* the counts the "+=" statements of on_llm_end have added
    \* one call of synthesis_node (orchestrator.py)
    synth_pc,           \* the call's position
    synth_questions,    \* state["research_questions"]
    synth_all_questions,\* all_questions: the sorted list the loop runs over
    report_sections,    \* the sections appended so far
    synth_return,       \* the dict the node returned
    \* history variable
    failed_sections     \* the positions at which the writer's LLM call raised

guiVars == <<current_research_state, generated_report>>
limiterVars == <<clock, requested_delay, next_available_time, callers, slots, returns,
                 lock, budget>>
editorVars == <<list_widget>>
qualityVars == <<candidates, cursor, scored_sources, total_score, average_score>>
extractVars == <<extract_text, parser, result>>
agentVars == <<agent, depth, results_per_q, questions, q_index, valid_queries,
               query_index, apc, all_results, rounds, reserved, unreserved,
               started, planned>>
roundVars == <<max_gap_iterations, min_quality_score, node_questions,
               active_questions, quality_sources, academic_sources, vector_store>>
usageVars == <<usage_pc, usage_heap, token_usage, pending_writes, usage_ledger,
               writes_applied>>
trackerVars == <<delta_usage, tracker_heap, node_threads, recorded>>
synthVars == <<synth_pc, synth_questions, synth_all_questions, report_sections,
               synth_return, failed_sections>>
lateVars == <<usageVars, trackerVars, synthVars>>
auxVars == <<extractVars, agentVars, roundVars, lateVars>>
otherVars == <<limiterVars, editorVars, qualityVars, auxVars>>

vars == <<pc, step, research_questions, identified_gaps, iteration_count, sources,
          final_report, is_complete, max_iterations, recursion_limit, writeOrder,
          is_running, webSt, acadSt, web_out, acad_out, signal, emitted,
          reportEmitted, gapPasses, kgRuns, passStartIter, lastDecision,
          stopInWeb, firstDone, sourcesAtFanOut, returned, completedNodes,
          guiVars, otherVars>>

stateVars == <<research_questions, identified_gaps, iteration_count, sources,
               final_report, is_complete>>
configVars == <<max_iterations, recursion_limit, writeOrder>>

\* ---------------------------------------------------------------- questions
Statuses == {"pending", "analyzed"}

\* the initial state's question list (gauntlet.py _approve_plan): ids 1..n,
\* depth 0, no parent
InitQuestionLists ==
    UNION {{[i \in 1..n |-> [id |-> i, question |-> InitText, status |-> st[i],
                             depth |-> 0, parent_id |-> None]]
            : st \in [1..n -> Statuses]} : n \in 0..MaxInitQ}

\* [q for q in research_questions if q["status"] == "pending"]
PendingQuestions(rq) == SelectSeq(rq, LAMBDA q : q.status = "pending")

\* pending questions with depth < max_gap_iterations (web_search_node, academic_node)
ActiveQuestions(rq) ==
    SelectSeq(rq, LAMBDA q : q.status = "pending" /\ q.depth < DefaultMaxGapIterations)

MaxOf(S) == CHOOSE m \in S : \A x \in S : x <= m

\* a decomposition that numbers its questions' depth from 1
FormatQuestions_DepthOne(texts) ==
    [i \in 1..Len(texts) |-> [id |-> i, question |-> texts[i], status |-> "pending",
                              depth |-> 1, parent_id |-> None]]

\* decompose_node, third branch: ids 1..n, pending, depth 0, no parent
FormatQuestions(texts) ==
    [i \in 1..Len(texts) |-> [id |-> i, question |-> texts[i], status |-> "pending",
                              depth |-> 0, parent_id |-> None]]

\* what DecomposeTopicAgent.run can return: the model's list, or the fallback
DecomposeOutputs == SeqsUpTo(Texts, MaxDecompose) \cup {<<FallbackText>>}

\* the methods class DecomposeTopicAgent defines (and BaseAgent: none beside __init__)
DecomposeTopicAgentMethods == {"run"}

\* what a gap-expansion model call could return: follow-ups with the question
\* they relate to
NewQuestionData ==
    SeqsUpTo([question : Texts, related_question_id : {None} \cup GapIds], MaxGaps)

ParentDepth(current, related) ==
    IF related # None /\ \E i \in 1..Len(current) : current[i].id = related
    THEN current[CHOOSE i \in 1..Len(current) :
                    /\ current[i].id = related
                    /\ \A j \in 1..(i - 1) : current[j].id # related].depth
    ELSE 0

\* decompose_node, first branch, after the call of generate_from_gaps
ExpandQuestions(nqd, current) ==
    LET max_id == IF current # <<>> THEN MaxOf({q.id : q \in Range(current)}) ELSE 0
        new_questions ==
            [i \in 1..Len(nqd) |->
                [id |-> max_id + i, question |-> nqd[i].question, status |-> "pending",
                 depth |-> ParentDepth(current, nqd[i].related_question_id) + 1,
                 parent_id |-> nqd[i].related_question_id]]
        analyzed == [i \in 1..Len(current) |->
                        IF current[i].status = "pending"
                        THEN [current[i] EXCEPT !.status = "analyzed"]
                        ELSE current[i]]
    IN  analyzed \o new_questions

\* should_continue with the ceiling compared by > instead of >=
should_continue_StrictCeiling(rq, current_iter, max_iter) ==
    IF PendingQuestions(rq) = <<>> THEN "finish"
    ELSE IF current_iter > max_iter THEN "finish"
    ELSE "continue"

\* should_continue without the test for pending questions
should_continue_NoPendingTest(rq, current_iter, max_iter) ==
    IF current_iter >= max_iter THEN "finish" ELSE "continue"

\* should_continue: the conditional edge after gap_analysis_node
should_continue(rq, current_iter, max_iter) ==
    IF PendingQuestions(rq) = <<>> THEN "finish"
    ELSE IF current_iter >= max_iter THEN "finish"
    ELSE "continue"

\* what GapAnalyzerAgent.run can return: gaps, each naming a question id
GapOutputs == SeqsUpTo(GapIds, MaxGaps)

\* gap_analysis_node whose no-op branch leaves iteration_count alone
gap_analysis_node_NoOpSkips(rq, ic, gaps) ==
    IF PendingQuestions(rq) = <<>>
    THEN [identified_gaps |-> <<>>, iteration_count |-> ic]
    ELSE [identified_gaps |-> gaps, iteration_count |-> ic + 1]

\* gap_analysis_node: the state update it returns
gap_analysis_node(rq, ic, gaps) ==
    IF PendingQuestions(rq) = <<>>
    THEN [identified_gaps |-> <<>>, iteration_count |-> ic + 1]
    ELSE [identified_gaps |-> gaps, iteration_count |-> ic + 1]

\* sorted(research_questions, key=id): a stable sort
RECURSIVE SortById(_)
SortById(rq) ==
    IF rq = <<>> THEN <<>>
    ELSE LET m == CHOOSE i \in 1..Len(rq) :
                    /\ \A j \in 1..Len(rq) : rq[i].id <= rq[j].id
                    /\ \A j \in 1..(i - 1) : rq[j].id # rq[i].id
             rest == [k \in 1..(Len(rq) - 1) |-> IF k < m THEN rq[k] ELSE rq[k + 1]]
         IN  <<rq[m]>> \o SortById(rest)

\* synthesis_node: one section per question, in id order
synthesis_node(rq) ==
    LET all_questions == SortById(rq)
    IN  [final_report |-> [i \in 1..Len(all_questions) |-> all_questions[i].id],
         is_complete |-> TRUE]

\* ------------------------------------------------------------------ sources
WebSources == [url : Urls, source_type : {"web"}]
AcademicSources == [url : Urls, source_type : {"academic"}]

\* web_search_node's "sources": none without active questions
WebOutputs(rq) ==
    IF ActiveQuestions(rq) = <<>> THEN {<<>>} ELSE SeqsUpTo(WebSources, MaxSrc)

AcademicOutputs(rq) ==
    IF ActiveQuestions(rq) = <<>> THEN {<<>>} ELSE SeqsUpTo(AcademicSources, MaxSrc)

\* only the write of the web task is applied
AddSources_WebOnly(current, web, academic, order, first) == current \o web

\* the writes applied in the order the tasks completed
AddSources_CompletionOrder(current, web, academic, order, first) ==
    IF first = "web" THEN current \o web \o academic
    ELSE current \o academic \o web

\* sources: Annotated[List, operator.add].  The writes of the two tasks of a
\* superstep are applied in the graph's task order, not in completion order.
AddSources(current, web, academic, order, first) ==
    IF order = "web_first" THEN current \o web \o academic
    ELSE current \o academic \o web

Count(x, s) == Cardinality({i \in 1..Len(s) : s[i] = x})

\* ------------------------------------------------------------------- worker
\* gauntlet.py: global_recursion_limit = get_param("max_iterations") or 50
GuiRecursionLimit(m) == IF m = 0 THEN DefaultRecursionLimit ELSE m

\* a worker that never looks at the stop flag
StopRequested_Never(running) == FALSE

\* worker.py: if not self._is_running: ... break
StopRequested(running) == ~running

NodeNames == {"decompose_node", "discovery", "knowledge_graph_node",
              "gap_analysis_node", "synthesis_node"}

NoStop == [set |-> FALSE, iter |-> 0, kg |-> 0]

\* no "generate_now" worker has delivered a report
NoReport == [ready |-> FALSE, sections |-> <<>>]

\* SourceQualityAgent.run has not returned
NotReturned == [st |-> "running", num |-> 0, den |-> 1]

\* the components a specification does not exercise stay as constructed
LimiterOff ==
    /\ clock = 0 /\ requested_delay = 0 /\ next_available_time = 0
    /\ callers = <<>> /\ slots = <<>> /\ returns = <<>> /\ lock = "free"
    /\ budget = <<>>

EditorOff == list_widget = <<>>

QualityOff ==
    /\ candidates = <<>> /\ cursor = 0 /\ scored_sources = <<>>
    /\ total_score = 0 /\ average_score = NotReturned

\* extract_json_from_text has not returned
NoResult == [tag |-> "pending"]

ExtractOff == extract_text = <<>> /\ parser = 0 /\ result = NoResult

AgentOff ==
    /\ agent = "off" /\ depth = 0 /\ results_per_q = 0 /\ questions = 0
    /\ q_index = 0 /\ valid_queries = 0 /\ query_index = 0 /\ apc = "off"
    /\ all_results = 0 /\ rounds = <<>> /\ reserved = FALSE /\ unreserved = FALSE
    /\ started = <<>> /\ planned = <<>>

RoundOff ==
    /\ max_gap_iterations = 0 /\ min_quality_score = 0 /\ node_questions = <<>>
    /\ active_questions = <<>> /\ quality_sources = <<>> /\ academic_sources = <<>>
    /\ vector_store = <<>>

\* the empty dict
EmptyDict == <<>>

UsageOff ==
    /\ usage_pc = "off" /\ usage_heap = <<>> /\ token_usage = EmptyDict
    /\ pending_writes = <<>> /\ usage_ledger = EmptyDict /\ writes_applied = 0

TrackerOff ==
    /\ delta_usage = <<>> /\ tracker_heap = <<>> /\ node_threads = <<>>
    /\ recorded = <<>>

SynthOff ==
    /\ synth_pc = "off" /\ synth_questions = <<>> /\ synth_all_questions = <<>>
    /\ report_sections = <<>> /\ synth_return = NoResult /\ failed_sections = {}

LateOff == UsageOff /\ TrackerOff /\ SynthOff

AuxOff == ExtractOff /\ AgentOff /\ RoundOff /\ LateOff

\* The state handed to run_stream by ResearchWorker (gauntlet.py _approve_plan:
\* iteration_count 0, no gaps, no sources, no report) and the settings in force.
\* The run is started either the way the GUI starts it (a non-empty approved
\* plan, the step limit taken from max_iterations) or with the default step limit.
Init ==
    /\ pc = "decompose_node"
    /\ step = 0
    /\ research_questions \in InitQuestionLists
    /\ identified_gaps = <<>>
    /\ iteration_count = 0
    /\ sources = <<>>
    /\ final_report = <<>>
    /\ is_complete = FALSE
    /\ max_iterations \in 0..MaxIterBound
    /\ recursion_limit \in {GuiRecursionLimit(max_iterations), DefaultRecursionLimit}
    /\ research_questions = <<>> => recursion_limit = DefaultRecursionLimit
    /\ writeOrder \in {"web_first", "academic_first"}
    /\ is_running = TRUE
    /\ webSt = "idle" /\ acadSt = "idle"
    /\ web_out = <<>> /\ acad_out = <<>>
    /\ signal = "none"
    /\ emitted = <<>>
    /\ reportEmitted = FALSE
    /\ gapPasses = 0
    /\ kgRuns = 0
    /\ passStartIter = 0
    /\ lastDecision = "none"
    /\ stopInWeb = NoStop
    /\ firstDone = "none"
    /\ sourcesAtFanOut = <<>>
    /\ returned = [x \in WebSources \cup AcademicSources |-> 0]
    /\ completedNodes = <<>>
    \* the GUI's copy of the initial state is read only by the handlers of its
    \* safety-limit dialog, which are part of SpecGui (InitGui keeps the copy)
    /\ current_research_state = <<>>
    /\ generated_report = NoReport
    /\ LimiterOff /\ EditorOff /\ QualityOff /\ AuxOff

discoveryVars == <<webSt, acadSt, web_out, acad_out, firstDone, sourcesAtFanOut,
                   sources, returned>>

\* a loop body that emits the node's output before it looks at the stop flag
Deliver_EmitThenStop(node, next, rq, gaps, ic, fr, done) ==
    /\ completedNodes' = Append(completedNodes, node)
    /\ emitted' = Append(emitted, node)
    /\ reportEmitted' = (reportEmitted \/ node = "synthesis_node")
    /\ IF StopRequested(is_running)
       THEN /\ pc' = "halted"
            /\ signal' = "finished"
            /\ UNCHANGED <<step, research_questions, identified_gaps, iteration_count,
                           final_report, is_complete>>
       ELSE /\ pc' = next
            /\ step' = step + 1
            /\ research_questions' = rq
            /\ identified_gaps' = gaps
            /\ iteration_count' = ic
            /\ final_report' = fr
            /\ is_complete' = done
            /\ signal' = IF next = "END" THEN "finished" ELSE "none"

\* The worker's loop body for the event of a node that is a superstep of its own
\* (worker.py 53-79), and the graph's commit of the node's writes when the
\* generator is resumed.  A stop request ends the loop at this event: the event
\* is not emitted, the generator is closed, and `finished` is emitted.
Deliver(node, next, rq, gaps, ic, fr, done) ==
    IF StopRequested(is_running)
    THEN /\ pc' = "halted"
         /\ signal' = "finished"
         /\ completedNodes' = Append(completedNodes, node)
         /\ UNCHANGED <<step, research_questions, identified_gaps, iteration_count,
                        final_report, is_complete, emitted, reportEmitted>>
    ELSE /\ pc' = next
         /\ completedNodes' = Append(completedNodes, node)
         /\ step' = step + 1
         /\ research_questions' = rq
         /\ identified_gaps' = gaps
         /\ iteration_count' = ic
         /\ final_report' = fr
         /\ is_complete' = done
         /\ emitted' = Append(emitted, node)
         /\ reportEmitted' = (reportEmitted \/ node = "synthesis_node")
         /\ signal' = IF next = "END" THEN "finished" ELSE "none"

\* An exception raised by a node leaves the stream and is caught by the worker's
\* outer handler (worker.py 91-93): the error signal.
Raise ==
    /\ pc' = "halted"
    /\ signal' = "error"
    /\ UNCHANGED <<step, research_questions, identified_gaps, iteration_count,
                   final_report, is_complete, emitted, reportEmitted, completedNodes>>

\* decompose_node (Planning)
DecomposeNode ==
    /\ pc = "decompose_node" /\ signal = "none" /\ step < recursion_limit
    /\ passStartIter' = iteration_count
    /\ IF identified_gaps # <<>> /\ iteration_count > 0
       THEN IF "generate_from_gaps" \in DecomposeTopicAgentMethods
            THEN \E nqd \in NewQuestionData :
                    Deliver("decompose_node", "discovery",
                            ExpandQuestions(nqd, research_questions),
                            identified_gaps, iteration_count, final_report, is_complete)
            ELSE Raise    \* AttributeError: no method generate_from_gaps
       ELSE IF iteration_count = 0 /\ research_questions # <<>>
       THEN Deliver("decompose_node", "discovery", research_questions,
                    identified_gaps, iteration_count, final_report, is_complete)
       ELSE \E texts \in DecomposeOutputs :
               Deliver("decompose_node", "discovery", FormatQuestions(texts),
                       identified_gaps, iteration_count, final_report, is_complete)
    /\ UNCHANGED <<configVars, is_running, discoveryVars, gapPasses, kgRuns,
                   lastDecision, stopInWeb, guiVars, otherVars>>

\* the discovery superstep starts: both tasks are launched
FanOut ==
    /\ pc = "discovery" /\ signal = "none" /\ step < recursion_limit
    /\ webSt = "idle" /\ acadSt = "idle"
    /\ webSt' = "running" /\ acadSt' = "running"
    /\ web_out' = <<>> /\ acad_out' = <<>>
    /\ firstDone' = "none"
    /\ sourcesAtFanOut' = sources
    /\ UNCHANGED <<pc, step, stateVars, configVars, is_running, signal, emitted,
                   reportEmitted, gapPasses, kgRuns, passStartIter, lastDecision,
                   stopInWeb, returned, completedNodes, guiVars, otherVars>>

\* the worker ends its loop at the event of a discovery task
HaltAtDiscovery(node) ==
    /\ pc' = "halted"
    /\ signal' = "finished"
    /\ completedNodes' = Append(completedNodes, node)
    /\ UNCHANGED <<step, sources, returned, emitted, webSt, acadSt, web_out,
                   acad_out, firstDone>>

\* fan-in: both tasks are done, their writes are applied, the superstep ends
Join(w, a, first) ==
    /\ pc' = "knowledge_graph_node"
    /\ step' = step + 1
    /\ sources' = AddSources(sources, w, a, writeOrder, first)
    /\ returned' = [x \in DOMAIN returned |-> returned[x] + Count(x, w) + Count(x, a)]

\* web_search_node completes
WebSearchNode ==
    /\ pc = "discovery" /\ signal = "none" /\ webSt = "running"
    /\ \E out \in WebOutputs(research_questions) :
        IF StopRequested(is_running) THEN HaltAtDiscovery("web_search_node")
        ELSE /\ webSt' = "done"
             /\ completedNodes' = Append(completedNodes, "web_search_node")
             /\ web_out' = out
             /\ firstDone' = IF firstDone = "none" THEN "web" ELSE firstDone
             /\ emitted' = Append(emitted, "web_search_node")
             /\ signal' = "none"
             /\ UNCHANGED <<acadSt, acad_out>>
             /\ IF acadSt = "done" THEN Join(out, acad_out, firstDone)
                ELSE UNCHANGED <<pc, step, sources, returned>>
    /\ UNCHANGED <<research_questions, identified_gaps, iteration_count, final_report,
                   is_complete, configVars, is_running, reportEmitted, gapPasses,
                   kgRuns, passStartIter, lastDecision, stopInWeb, sourcesAtFanOut,
                   guiVars, otherVars>>

\* academic_node completes
AcademicNode ==
    /\ pc = "discovery" /\ signal = "none" /\ acadSt = "running"
    /\ \E out \in AcademicOutputs(research_questions) :
        IF StopRequested(is_running) THEN HaltAtDiscovery("academic_node")
        ELSE /\ acadSt' = "done"
             /\ completedNodes' = Append(completedNodes, "academic_node")
             /\ acad_out' = out
             /\ firstDone' = IF firstDone = "none" THEN "academic" ELSE firstDone
             /\ emitted' = Append(emitted, "academic_node")
             /\ signal' = "none"
             /\ UNCHANGED <<webSt, web_out>>
             /\ IF webSt = "done" THEN Join(web_out, out, firstDone)
                ELSE UNCHANGED <<pc, step, sources, returned>>
    /\ UNCHANGED <<research_questions, identified_gaps, iteration_count, final_report,
                   is_complete, configVars, is_running, reportEmitted, gapPasses,
                   kgRuns, passStartIter, lastDecision, stopInWeb, sourcesAtFanOut,
                   guiVars, otherVars>>

\* knowledge_graph_node (KnowledgeStructuring): runs once both branches are merged
KnowledgeGraphNode ==
    /\ pc = "knowledge_graph_node" /\ signal = "none" /\ step < recursion_limit
    /\ kgRuns' = kgRuns + 1
    /\ Deliver("knowledge_graph_node", "gap_analysis_node", research_questions,
               identified_gaps, iteration_count, final_report, is_complete)
    /\ webSt' = "idle" /\ acadSt' = "idle"
    /\ web_out' = <<>> /\ acad_out' = <<>>
    /\ firstDone' = "none"
    /\ sourcesAtFanOut' = <<>>
    /\ UNCHANGED <<sources, returned, configVars, is_running, gapPasses,
                   passStartIter, lastDecision, stopInWeb, guiVars, otherVars>>

\* gap_analysis_node and the conditional edge should_continue, which reads the
\* state with the node's own update applied
GapAnalysisNode ==
    /\ pc = "gap_analysis_node" /\ signal = "none" /\ step < recursion_limit
    /\ \E gaps \in GapOutputs :
        LET out == gap_analysis_node(research_questions, iteration_count, gaps)
            decision == should_continue(research_questions, out.iteration_count,
                                        max_iterations)
        IN  /\ Deliver("gap_analysis_node",
                       IF decision = "continue" THEN "decompose_node" ELSE "synthesis_node",
                       research_questions, out.identified_gaps, out.iteration_count,
                       final_report, is_complete)
            /\ IF StopRequested(is_running)
               THEN UNCHANGED <<gapPasses, lastDecision>>
               ELSE /\ gapPasses' = gapPasses + 1
                    /\ lastDecision' = decision
    /\ UNCHANGED <<configVars, is_running, discoveryVars, kgRuns, passStartIter,
                   stopInWeb, guiVars, otherVars>>

\* synthesis_node, then END: the stream is exhausted and `finished` is emitted
SynthesisNode ==
    /\ pc = "synthesis_node" /\ signal = "none" /\ step < recursion_limit
    /\ LET out == synthesis_node(research_questions)
       IN  Deliver("synthesis_node", "END", research_questions, identified_gaps,
                   iteration_count, out.final_report, out.is_complete)
    /\ UNCHANGED <<configVars, is_running, discoveryVars, gapPasses, kgRuns,
                   passStartIter, lastDecision, stopInWeb, guiVars, otherVars>>

\* The graph has run recursion_limit supersteps and is not done:
\* GraphRecursionError, which the worker turns into recursion_error (worker.py 81-83)
RecursionLimitHit ==
    /\ pc \in NodeNames /\ signal = "none"
    /\ pc = "discovery" => (webSt = "idle" /\ acadSt = "idle")
    /\ step >= recursion_limit
    /\ pc' = "halted"
    /\ signal' = "recursion_error"
    /\ UNCHANGED <<step, stateVars, configVars, is_running, webSt, acadSt, web_out,
                   acad_out, emitted, reportEmitted, gapPasses, kgRuns, passStartIter,
                   lastDecision, stopInWeb, firstDone, sourcesAtFanOut, returned,
                   completedNodes, guiVars, otherVars>>

\* ResearchWorker.stop(), called from the GUI thread while the worker runs
Stop ==
    /\ signal = "none" /\ is_running
    /\ is_running' = FALSE
    /\ stopInWeb' = IF webSt = "running"
                    THEN [set |-> TRUE, iter |-> passStartIter, kg |-> kgRuns]
                    ELSE stopInWeb
    /\ UNCHANGED <<pc, step, stateVars, configVars, webSt, acadSt, web_out, acad_out,
                   signal, emitted, reportEmitted, gapPasses, kgRuns, passStartIter,
                   lastDecision, firstDone, sourcesAtFanOut, returned, completedNodes,
                   guiVars, otherVars>>

Next ==
    \/ DecomposeNode
    \/ FanOut
    \/ WebSearchNode
    \/ AcademicNode
    \/ KnowledgeGraphNode
    \/ GapAnalysisNode
    \/ SynthesisNode
    \/ RecursionLimitHit
    \/ Stop

Spec == Init /\ [][Next]_vars

\* no research run is in progress
LoopOff ==
    /\ pc = "off" /\ step = 0
    /\ research_questions = <<>> /\ identified_gaps = <<>> /\ iteration_count = 0
    /\ sources = <<>> /\ final_report = <<>> /\ is_complete = FALSE
    /\ max_iterations = 0 /\ recursion_limit = DefaultRecursionLimit
    /\ writeOrder = "web_first" /\ is_running = TRUE
    /\ webSt = "idle" /\ acadSt = "idle" /\ web_out = <<>> /\ acad_out = <<>>
    /\ signal = "none" /\ emitted = <<>> /\ reportEmitted = FALSE
    /\ gapPasses = 0 /\ kgRuns = 0 /\ passStartIter = 0 /\ lastDecision = "none"
    /\ stopInWeb = NoStop /\ firstDone = "none" /\ sourcesAtFanOut = <<>>
    /\ returned = [x \in WebSources \cup AcademicSources |-> 0]
    /\ completedNodes = <<>>
    /\ current_research_state = <<>> /\ generated_report = NoReport

loopVars == <<pc, step, stateVars, configVars, is_running, webSt, acadSt, web_out,
              acad_out, signal, emitted, reportEmitted, gapPasses, kgRuns,
              passStartIter, lastDecision, stopInWeb, firstDone, sourcesAtFanOut,
              returned, completedNodes, guiVars>>

\* ---------------------------------------------------------------------- GUI
\* A research started from the GUI: the approved plan is not empty
\* (_approve_plan returns otherwise), the state handed to the worker is kept in
\* current_research_state, and the step limit is the max_iterations setting.
InitGui ==
    /\ pc = "decompose_node"
    /\ step = 0
    /\ research_questions \in {rq \in InitQuestionLists :
                                  rq # <<>> /\ PendingQuestions(rq) = rq}
    /\ identified_gaps = <<>>
    /\ iteration_count = 0
    /\ sources = <<>>
    /\ final_report = <<>>
    /\ is_complete = FALSE
    /\ max_iterations = GuiSteps
    /\ recursion_limit = GuiRecursionLimit(max_iterations)
    /\ writeOrder \in {"web_first", "academic_first"}
    /\ is_running = TRUE
    /\ webSt = "idle" /\ acadSt = "idle"
    /\ web_out = <<>> /\ acad_out = <<>>
    /\ signal = "none"
    /\ emitted = <<>>
    /\ reportEmitted = FALSE
    /\ gapPasses = 0
    /\ kgRuns = 0
    /\ passStartIter = 0
    /\ lastDecision = "none"
    /\ stopInWeb = NoStop
    /\ firstDone = "none"
    /\ sourcesAtFanOut = <<>>
    /\ returned = [x \in WebSources \cup AcademicSources |-> 0]
    /\ completedNodes = <<>>
    /\ current_research_state = research_questions
    /\ generated_report = NoReport
    /\ LimiterOff /\ EditorOff /\ QualityOff /\ AuxOff

\* workflow.stream(input, config) on a thread that has a checkpoint, with an
\* input that is not None: a new run from the entry node, the input written over
\* the saved channels; a channel with a reducer (sources: operator.add) adds the
\* input to what is saved.  The input is the state dict of _approve_plan.
StreamInput(saved, input) ==
    [research_questions |-> input,
     identified_gaps |-> <<>>,
     iteration_count |-> 0,
     sources |-> saved.sources \o <<>>,
     final_report |-> <<>>,
     is_complete |-> FALSE]

\* _on_recursion_error, "Continue (+20 steps)": the limit grows by 20 and
\* _start_research starts a new worker on the same thread_id with
\* state = self.current_research_state
ContinueRun ==
    /\ signal = "recursion_error"
    /\ LET saved == [research_questions |-> research_questions,
                     identified_gaps |-> identified_gaps,
                     iteration_count |-> iteration_count,
                     sources |-> sources,
                     final_report |-> final_report,
                     is_complete |-> is_complete]
           start == StreamInput(saved, current_research_state)
       IN  /\ research_questions' = start.research_questions
           /\ identified_gaps' = start.identified_gaps
           /\ iteration_count' = start.iteration_count
           /\ sources' = start.sources
           /\ final_report' = start.final_report
           /\ is_complete' = start.is_complete
    /\ recursion_limit' = recursion_limit + ContinueSteps
    /\ pc' = "decompose_node" /\ step' = 0
    /\ is_running' = TRUE
    /\ webSt' = "idle" /\ acadSt' = "idle" /\ web_out' = <<>> /\ acad_out' = <<>>
    /\ signal' = "none" /\ emitted' = <<>> /\ reportEmitted' = FALSE
    /\ completedNodes' = <<>>
    /\ gapPasses' = 0 /\ kgRuns' = 0 /\ passStartIter' = 0 /\ lastDecision' = "none"
    /\ stopInWeb' = NoStop /\ firstDone' = "none" /\ sourcesAtFanOut' = <<>>
    /\ UNCHANGED <<max_iterations, writeOrder, returned, guiVars, otherVars>>

\* _on_recursion_error, "Generate Report Now": a "generate_now" worker calls
\* generate_report_now(self.current_research_state), which is synthesis_node on
\* that state, emits the report and finishes
GenerateReportNow ==
    /\ signal = "recursion_error"
    /\ generated_report' =
          [ready |-> TRUE,
           sections |-> synthesis_node(current_research_state).final_report]
    /\ signal' = "finished"
    /\ UNCHANGED <<pc, step, stateVars, configVars, is_running, webSt, acadSt,
                   web_out, acad_out, emitted, reportEmitted, gapPasses, kgRuns,
                   passStartIter, lastDecision, stopInWeb, firstDone,
                   sourcesAtFanOut, returned, completedNodes,
                   current_research_state, otherVars>>

NextGui ==
    \/ Next
    \/ ContinueRun
    \/ GenerateReportNow

SpecGui == InitGui /\ [][NextGui]_vars

\* -------------------------------------------------------------- plan editor
\* _on_plan_ready: load_questions puts the planner's questions into the list
\* (ids 1..n as the planner numbers them; _add_item adds the defaults)
EditorInit ==
    /\ list_widget \in InitQuestionLists
    /\ LoopOff /\ LimiterOff /\ QualityOff /\ AuxOff

\* list_widget.takeItem(row)
TakeItem(rows, row) ==
    [k \in 1..(Len(rows) - 1) |-> IF k < row THEN rows[k] ELSE rows[k + 1]]

\* PlanEditorWidget._add_point: the new point's id is the row count plus one
AddPoint ==
    /\ pc = "off"
    /\ Len(list_widget) < MaxRows
    /\ \E text \in Texts :
        list_widget' = Append(list_widget,
                              [id |-> Len(list_widget) + 1, question |-> text,
                               status |-> "pending", depth |-> 0, parent_id |-> None])
    /\ UNCHANGED <<loopVars, limiterVars, qualityVars, auxVars>>

\* PlanEditorWidget._delete_item, confirmed
DeleteItem ==
    /\ pc = "off"
    /\ \E row \in 1..Len(list_widget) : list_widget' = TakeItem(list_widget, row)
    /\ UNCHANGED <<loopVars, limiterVars, qualityVars, auxVars>>

\* PlanEditorWidget._edit_item: a new text for a row, its id stays
EditItem ==
    /\ pc = "off"
    /\ \E row \in 1..Len(list_widget), text \in Texts :
        list_widget' = [list_widget EXCEPT ![row].question = text]
    /\ UNCHANGED <<loopVars, limiterVars, qualityVars, auxVars>>

\* GauntletUI._approve_plan: get_questions() becomes the research_questions of
\* the initial state; nothing happens on an empty plan
ApprovePlan ==
    /\ pc = "off"
    /\ list_widget # <<>>
    /\ research_questions' = list_widget
    /\ current_research_state' = list_widget
    /\ pc' = "decompose_node"
    /\ UNCHANGED <<step, identified_gaps, iteration_count, sources, final_report,
                   is_complete, configVars, is_running, webSt, acadSt, web_out,
                   acad_out, signal, emitted, reportEmitted, gapPasses, kgRuns,
                   passStartIter, lastDecision, stopInWeb, firstDone,
                   sourcesAtFanOut, returned, completedNodes, generated_report,
                   list_widget, limiterVars, qualityVars, auxVars>>

NextEditor ==
    \/ AddPoint
    \/ DeleteItem
    \/ EditItem
    \/ ApprovePlan

SpecEditor == EditorInit /\ [][NextEditor]_vars

\* ----------------------------------------------------------- quality scorer
\* the "score" of the model's answer for a candidate: a number (or a numeric
\* string, which float() accepts), no score key, or a value float() rejects
AnswerScores ==
    {[tag |-> "number", value |-> n] : n \in 0..MaxScore}
        \cup {[tag |-> "missing", value |-> 0], [tag |-> "bad", value |-> 0]}

\* what the model call and extract_json_from_text give for a candidate: the call
\* raises; no dict (None, a scalar, an empty list, a list of other things); a
\* dict; a non-empty list whose first element is a dict
Answers ==
    {[kind |-> k, score |-> [tag |-> "missing", value |-> 0]] : k \in {"raises", "no_dict"}}
        \cup {[kind |-> k, score |-> sc] : k \in {"dict", "list_of_dicts"}, sc \in AnswerScores}

\* candidates[:max_assess]
Assessed(cands) == SubSeq(cands, 1, IF Len(cands) < MaxAssess THEN Len(cands) ELSE MaxAssess)

\* the loop body for one candidate: a dict answer (a list is replaced by its
\* first element) is merged into the source and the source is appended; then
\* float(data.get('score', 0)) is added, and if float() raises the except
\* clause leaves the source in the list and the total as it was
ScoreStep(answer, scored, total) ==
    IF answer.kind \in {"dict", "list_of_dicts"}
    THEN [scored_sources |-> Append(scored, [score |-> answer.score]),
          total_score |-> IF answer.score.tag = "number"
                          THEN total + answer.score.value ELSE total]
    ELSE [scored_sources |-> scored, total_score |-> total]

\* the average without the test for an empty list: ZeroDivisionError
AverageScore_NoGuard(total, scored) ==
    IF scored = <<>> THEN [st |-> "raised", num |-> total, den |-> 1]
    ELSE [st |-> "returned", num |-> total, den |-> Len(scored)]

\* avg_score = total_score / len(scored_sources) if scored_sources else 0.0,
\* as the fraction num / den
AverageScore(total, scored) ==
    IF scored # <<>> THEN [st |-> "returned", num |-> total, den |-> Len(scored)]
    ELSE [st |-> "returned", num |-> 0, den |-> 1]

QualityInit ==
    /\ candidates \in SeqsUpTo(Answers, MaxCandidates)
    /\ cursor = 0
    /\ scored_sources = <<>>
    /\ total_score = 0
    /\ average_score = NotReturned
    /\ LoopOff /\ LimiterOff /\ EditorOff /\ AuxOff

\* one iteration of `for source in candidates[:max_assess]`
AssessCandidate ==
    /\ average_score.st = "running"
    /\ cursor < Len(Assessed(candidates))
    /\ LET r == ScoreStep(candidates[cursor + 1], scored_sources, total_score)
       IN  /\ scored_sources' = r.scored_sources
           /\ total_score' = r.total_score
    /\ cursor' = cursor + 1
    /\ UNCHANGED <<candidates, average_score, loopVars, limiterVars, editorVars, auxVars>>

\* the loop is over: the average is computed and the call returns
ReturnAverage ==
    /\ average_score.st = "running"
    /\ cursor = Len(Assessed(candidates))
    /\ average_score' = AverageScore(total_score, scored_sources)
    /\ UNCHANGED <<candidates, cursor, scored_sources, total_score, loopVars,
                   limiterVars, editorVars, auxVars>>

NextQuality ==
    \/ AssessCandidate
    \/ ReturnAverage

SpecQuality == QualityInit /\ [][NextQuality]_vars

\* ------------------------------------------------------------- rate limiter
\* the threads that share the orchestrator's SourceManager: the two discovery tasks
Threads == {"web_search_node", "academic_node"}

\* self.enforced_delay = self.requested_delay * 2.0
EnforcedDelay(requested) == requested * 2

\* _wait_for_slot whose early branch reserves from now, as the on-time branch does
ReserveSlot_FromNow(now, next, delay) ==
    IF now < next
    THEN [sleep_duration |-> next - now, next_available_time |-> now + delay]
    ELSE [sleep_duration |-> 0, next_available_time |-> now + delay]

\* _wait_for_slot that adds one interval to next_available_time in both branches
ReserveSlot_AlwaysAdd(now, next, delay) ==
    IF now < next
    THEN [sleep_duration |-> next - now, next_available_time |-> next + delay]
    ELSE [sleep_duration |-> 0, next_available_time |-> next + delay]

\* _wait_for_slot whose early branch sleeps but reserves nothing
ReserveSlot_KeepNext(now, next, delay) ==
    IF now < next
    THEN [sleep_duration |-> next - now, next_available_time |-> next]
    ELSE [sleep_duration |-> 0, next_available_time |-> now + delay]

\* _wait_for_slot, the block under the lock: the sleep it decides on and the
\* next_available_time it leaves
ReserveSlot(now, next, delay) ==
    IF now < next
    THEN [sleep_duration |-> next - now, next_available_time |-> next + delay]
    ELSE [sleep_duration |-> 0, next_available_time |-> now + delay]

\* the lock kept by the caller after the reservation, through its sleep
LockAfterBlock_HeldInSleep(t) == t

\* leaving the "with self._lock:" block releases the lock, before time.sleep
LockAfterBlock(t) == "free"

NotCalling == [st |-> "idle", wake |-> 0, slot |-> 0, first |-> 0, last |-> 0, done |-> 0]

LimiterInit ==
    /\ clock = 0
    /\ requested_delay \in 1..MaxDelay
    /\ next_available_time = 0
    /\ callers = [t \in Threads |-> NotCalling]
    /\ slots = <<>>
    /\ returns = <<>>
    /\ lock = "free"
    /\ budget = [calls |-> MaxCalls, clock |-> MaxClock]
    /\ LoopOff /\ EditorOff /\ QualityOff /\ AuxOff

\* the same SourceManager, in a run with fewer calls
LimiterFairInit ==
    /\ clock = 0
    /\ requested_delay \in 1..MaxDelay
    /\ next_available_time = 0
    /\ callers = [t \in Threads |-> NotCalling]
    /\ slots = <<>>
    /\ returns = <<>>
    /\ lock = "free"
    /\ budget = [calls |-> MaxFairCalls, clock |-> MaxFairClock]
    /\ LoopOff /\ EditorOff /\ QualityOff /\ AuxOff

\* time passes; the model stops the clock at its bound once nobody sleeps
Tick ==
    /\ \/ clock < budget.clock
       \/ \E t \in Threads : callers[t].st = "sleeping" /\ callers[t].wake > clock
    /\ clock' = clock + 1
    /\ UNCHANGED <<requested_delay, next_available_time, callers, slots, returns, lock,
                   budget>>
    /\ UNCHANGED <<loopVars, editorVars, qualityVars, auxVars>>

\* the calls of _wait_for_slot that have not reserved yet
InFlight == Cardinality({t \in Threads : callers[t].st \in {"waiting", "locked"}})

\* thread t calls _wait_for_slot and arrives at "with self._lock:"
EnterWaitForSlot(t) ==
    /\ callers[t].st = "idle"
    /\ Len(slots) + InFlight < budget.calls
    /\ callers' = [callers EXCEPT ![t] =
                      [@ EXCEPT !.st = "waiting",
                                !.first = IF callers[t].done = 0 THEN clock ELSE @]]
    /\ UNCHANGED <<clock, requested_delay, next_available_time, slots, returns, lock,
                   budget>>
    /\ UNCHANGED <<loopVars, editorVars, qualityVars, auxVars>>

\* thread t enters "with self._lock:", which it can only while no other
\* thread is inside the block
AcquireLock(t) ==
    /\ callers[t].st = "waiting"
    /\ lock = "free"
    /\ lock' = t
    /\ callers' = [callers EXCEPT ![t] = [@ EXCEPT !.st = "locked"]]
    /\ UNCHANGED <<clock, requested_delay, next_available_time, slots, returns, budget>>
    /\ UNCHANGED <<loopVars, editorVars, qualityVars, auxVars>>

\* thread t runs the block under the lock: it reads the clock, decides its
\* sleep and reserves, and leaves the block
WaitForSlot(t) ==
    /\ callers[t].st = "locked"
    /\ lock = t
    /\ lock' = LockAfterBlock(t)
    /\ LET r == ReserveSlot(clock, next_available_time, EnforcedDelay(requested_delay))
       IN  /\ next_available_time' = r.next_available_time
           /\ slots' = Append(slots, clock + r.sleep_duration)
           /\ callers' = [callers EXCEPT ![t] =
                             [st |-> "sleeping",
                              wake |-> clock + r.sleep_duration,
                              slot |-> clock + r.sleep_duration,
                              first |-> @.first,
                              last |-> @.last, done |-> @.done]]
    /\ UNCHANGED <<clock, requested_delay, returns, budget>>
    /\ UNCHANGED <<loopVars, editorVars, qualityVars, auxVars>>

\* thread t returns from _wait_for_slot: after time.sleep(sleep_duration), which
\* suspends the thread for at least that long, or at once when it is 0; the
\* thread may be scheduled late in both cases
ReturnFromWait(t) ==
    /\ callers[t].st = "sleeping"
    /\ clock >= callers[t].wake
    /\ returns' = Append(returns, [slot |-> callers[t].slot, time |-> clock])
    /\ callers' = [callers EXCEPT ![t] =
                      [@ EXCEPT !.st = "idle", !.last = clock, !.done = @ + 1]]
    /\ UNCHANGED <<clock, requested_delay, next_available_time, slots, lock, budget>>
    /\ UNCHANGED <<loopVars, editorVars, qualityVars, auxVars>>

NextLimiter ==
    \/ Tick
    \/ \E t \in Threads : EnterWaitForSlot(t)
    \/ \E t \in Threads : AcquireLock(t)
    \/ \E t \in Threads : WaitForSlot(t)
    \/ \E t \in Threads : ReturnFromWait(t)

SpecLimiter == LimiterInit /\ [][NextLimiter]_vars

\* fair scheduling: time passes, a thread that can run the block under the lock
\* or return from its sleep does so, and a thread that waits for the lock gets
\* it when the lock is free again and again
SpecLimiterFair ==
    /\ LimiterFairInit /\ [][NextLimiter]_vars
    /\ WF_vars(Tick)
    /\ \A t \in Threads : SF_vars(AcquireLock(t))
    /\ \A t \in Threads : WF_vars(WaitForSlot(t))
    /\ \A t \in Threads : WF_vars(ReturnFromWait(t))

\* ---------------------------------------------------- extract_json_from_text
\* the parsers in the order of the function body: the fence regex, the list
\* regex, the object regex, json.loads(text)
Parsers == <<"fence", "list", "object", "raw">>

\* the values json.loads may produce
JsonValues == {"v1", "v2"}

\* what a parser finds in a text: its regex does not match ("nomatch"), or
\* json.loads raises JSONDecodeError on what it matched ("invalid"), or a value
ParserOutcomes == {"nomatch", "invalid"} \cup JsonValues

\* the texts, by what each parser finds in them.  A text the list regex matches
\* holds a "{...}", so the object regex matches it too; json.loads(text) has no
\* regex in front of it.
ExtractTexts ==
    {t \in [fence : ParserOutcomes, list : ParserOutcomes,
             object : ParserOutcomes, raw : {"invalid"} \cup JsonValues] :
        t.list # "nomatch" => t.object # "nomatch"}

Found(t, name) ==
    CASE name = "fence" -> t.fence
      [] name = "list" -> t.list
      [] name = "object" -> t.object
      [] OTHER -> t.raw

ExtractInit ==
    /\ extract_text \in ExtractTexts
    /\ parser = 1
    /\ result = NoResult
    /\ LoopOff /\ LimiterOff /\ EditorOff /\ QualityOff /\ AgentOff /\ RoundOff
    /\ LateOff

\* one step of the body: "if match: return json.loads(...)" falls through when
\* the regex does not match; a JSONDecodeError from json.loads leaves the try
\* block for "return None"
TryParser ==
    /\ parser \in 1..Len(Parsers)
    /\ result = NoResult
    /\ LET found == Found(extract_text, Parsers[parser])
       IN  IF found = "nomatch"
           THEN parser' = parser + 1 /\ result' = result
           ELSE /\ parser' = Len(Parsers) + 1
                /\ result' = IF found = "invalid"
                             THEN [tag |-> "None"]
                             ELSE [tag |-> "value", value |-> found]
    /\ UNCHANGED <<extract_text, loopVars, limiterVars, editorVars, qualityVars,
                   agentVars, roundVars, lateVars>>

NextExtract == TryParser

SpecExtract == ExtractInit /\ [][NextExtract]_vars

\* --------------------------------------------------------- discovery agents
\* "for q in questions[:4]" of AcademicSpecialistAgent.run
AcademicQuestionCap == 4

Min(a, b) == IF a < b THEN a ELSE b

\* max_results of the web agent's requests: the first of a query asks for
\* results_per_q, the follow-up for 2, the deep one for 1
WebRoundSize(round, per_q) ==
    CASE round = 1 -> per_q
      [] round = 2 -> 2
      [] OTHER -> 1

\* max_results of the academic agent's requests: the broadened one asks for 2
AcademicRoundSize(round, per_q) == IF round = 1 THEN per_q ELSE 2

\* "if depth > 1 and results:" / "if depth > 2 and sub_results:"
WebDeeper(round, d, hits) == round < 3 /\ d > round /\ hits > 0

\* "if depth > 1 and not entries:"
AcademicDeeper(round, d, hits) == round = 1 /\ d > 1 /\ hits = 0

\* what a request may do: raise, answer with a status other than 200 (academic
\* only), or return some results
RequestRaises == [tag |-> "raise"]
BadStatus == [tag |-> "status"]
Hits(size) == {[tag |-> "hits", n |-> k] : k \in 0..Min(size, MaxHits)}

AgentInit ==
    /\ agent \in {"web", "academic"}
    /\ depth \in 1..MaxDepthArg
    /\ results_per_q \in 1..MaxResultsPerQ
    /\ questions \in 1..MaxAgentQ
    /\ q_index = 0 /\ valid_queries = 0 /\ query_index = 0
    /\ apc = "next_question"
    /\ all_results = 0
    /\ rounds = <<>>
    /\ reserved = FALSE /\ unreserved = FALSE
    /\ started = [i \in 1..questions |-> 0]
    /\ planned = [i \in 1..questions |-> 0]
    /\ LoopOff /\ LimiterOff /\ EditorOff /\ QualityOff /\ ExtractOff /\ RoundOff
    /\ LateOff

agentOthers == <<loopVars, limiterVars, editorVars, qualityVars, extractVars, roundVars,
                 lateVars>>
agentConfig == <<agent, depth, results_per_q, questions>>

\* the questions the outer loop goes through
LoopQuestions == IF agent = "academic" THEN Min(questions, AcademicQuestionCap) ELSE questions

\* "for q in questions:" takes the next question; an exception caught by the
\* "except" of the loop body arrives here as well
NextQuestion ==
    /\ apc = "next_question"
    /\ q_index < LoopQuestions
    /\ q_index' = q_index + 1
    /\ valid_queries' = 0 /\ query_index' = 0 /\ rounds' = <<>>
    /\ apc' = "generate"
    /\ UNCHANGED <<agentConfig, all_results, reserved, unreserved, started, planned>>
    /\ UNCHANGED agentOthers

\* the loop is over: "return all_results" / "return academic_results"
ReturnResults ==
    /\ apc = "next_question"
    /\ q_index >= LoopQuestions
    /\ apc' = "returned"
    /\ UNCHANGED <<agentConfig, q_index, valid_queries, query_index, all_results,
                   rounds, reserved, unreserved, started, planned>>
    /\ UNCHANGED agentOthers

\* InitialSearchAgent.run: the model call that generates the queries, cut to
\* queries_per_q; when it raises, the loop body's except skips the question
GenerateQueries ==
    /\ agent = "web" /\ apc = "generate"
    /\ \/ /\ apc' = "next_question"
          /\ UNCHANGED <<valid_queries, planned>>
       \/ \E n \in 0..MaxQueriesPerQ :
             /\ valid_queries' = n
             /\ planned' = [planned EXCEPT ![q_index] = n]
             /\ apc' = "next_query"
    /\ UNCHANGED <<agentConfig, q_index, query_index, all_results, rounds, reserved,
                   unreserved, started>>
    /\ UNCHANGED agentOthers

\* "for query in valid_queries:" takes the next query, or the loop body ends
NextQuery ==
    /\ agent = "web" /\ apc = "next_query"
    /\ IF query_index < valid_queries
       THEN /\ query_index' = query_index + 1
            /\ rounds' = <<>>
            /\ started' = [started EXCEPT ![q_index] = @ + 1]
            /\ apc' = "wait"
       ELSE /\ apc' = "next_question"
            /\ UNCHANGED <<query_index, rounds, started>>
    /\ UNCHANGED <<agentConfig, q_index, valid_queries, all_results, reserved,
                   unreserved, planned>>
    /\ UNCHANGED agentOthers

\* AcademicSpecialistAgent.run: _get_keywords, which catches its own
\* exceptions; "if not keywords: continue"; otherwise the question has one query
GetKeywords ==
    /\ agent = "academic" /\ apc = "generate"
    /\ \/ /\ apc' = "next_question"
          /\ UNCHANGED <<valid_queries, query_index, started, planned>>
       \/ /\ valid_queries' = 1 /\ query_index' = 1
          /\ planned' = [planned EXCEPT ![q_index] = 1]
          /\ started' = [started EXCEPT ![q_index] = 1]
          /\ apc' = "wait"
    /\ UNCHANGED <<agentConfig, q_index, all_results, rounds, reserved, unreserved>>
    /\ UNCHANGED agentOthers

\* self.source_manager._wait_for_slot()
CallWaitForSlot ==
    /\ apc = "wait"
    /\ reserved' = TRUE
    /\ apc' = "request"
    /\ UNCHANGED <<agentConfig, q_index, valid_queries, query_index, all_results,
                   rounds, unreserved, started, planned>>
    /\ UNCHANGED agentOthers

\* ddgs.text(...): round 1, 2 or 3 of the current query
WebRequest ==
    /\ agent = "web" /\ apc = "request"
    /\ LET round == Len(rounds) + 1
           size == WebRoundSize(round, results_per_q)
       IN  \E out \in {RequestRaises} \cup Hits(size) :
             /\ rounds' = Append(rounds, [max_results |-> size, outcome |-> out])
             /\ IF out.tag = "raise"
                THEN apc' = "next_question" /\ all_results' = all_results
                ELSE /\ all_results' = all_results + out.n
                     /\ apc' = IF WebDeeper(round, depth, out.n)
                               THEN "wait" ELSE "next_query"
    /\ unreserved' = (unreserved \/ ~reserved)
    /\ reserved' = FALSE
    /\ UNCHANGED <<agentConfig, q_index, valid_queries, query_index, started, planned>>
    /\ UNCHANGED agentOthers

\* client.get(arxiv_url): the query of the current question, or the broadened
\* query that follows it at once when depth > 1 and there were no entries
AcademicRequest ==
    /\ agent = "academic" /\ apc = "request"
    /\ LET round == Len(rounds) + 1
           size == AcademicRoundSize(round, results_per_q)
       IN  \E out \in {RequestRaises, BadStatus} \cup Hits(size) :
             /\ rounds' = Append(rounds, [max_results |-> size, outcome |-> out])
             /\ IF out.tag \in {"raise", "status"}
                THEN apc' = "next_question" /\ all_results' = all_results
                ELSE /\ all_results' = all_results + out.n
                     /\ apc' = IF AcademicDeeper(round, depth, out.n)
                               THEN "request" ELSE "next_question"
    /\ unreserved' = (unreserved \/ ~reserved)
    /\ reserved' = FALSE
    /\ UNCHANGED <<agentConfig, q_index, valid_queries, query_index, started, planned>>
    /\ UNCHANGED agentOthers

NextAgent ==
    \/ NextQuestion
    \/ ReturnResults
    \/ GenerateQueries
    \/ NextQuery
    \/ GetKeywords
    \/ CallWaitForSlot
    \/ WebRequest
    \/ AcademicRequest

SpecAgent == AgentInit /\ [][NextAgent]_vars

\* ------------------------------------------- the node functions on one state
\* scores and min_quality_score are counted in tenths: 1.0 is ScoreScale
ScoreScale == 10

\* settings default "min_quality_score": 0.6
DefaultMinQuality == 6

\* the 0.1 that web_search_node subtracts from min_score
ScoreSlack == 1

RoundNodes == {"web_search_node", "academic_node", "knowledge_graph_node",
               "gap_analysis_node"}

\* question lists with ids 1..n, any status and any depth up to MaxQDepth
NodeQuestionLists ==
    UNION {{[i \in 1..n |-> [id |-> i, status |-> f[i].status, depth |-> f[i].depth]] :
              f \in [1..n -> [status : Statuses, depth : 0..MaxQDepth]]} :
           n \in 0..MaxInitQ}

\* [q for q in research_questions if q["status"] == "pending" and q["depth"] < max_rounds]
ActiveQuestionsAt(rq, max_rounds) ==
    SelectSeq(rq, LAMBDA q : q.status = "pending" /\ q.depth < max_rounds)

Ids(rq) == [i \in 1..Len(rq) |-> rq[i].id]

NotRun == [ran |-> FALSE, ids |-> <<>>]

\* VectorStore.add_source returns without adding when the content is empty
Addable(srcs) == SelectSeq(srcs, LAMBDA x : x.snippet)

\* web_search_node: "if src.get('score', 0) >= (min_score - 0.1)" over quality["sources"]
IndexedWeb(srcs, min_score) ==
    LET pass == SelectSeq(srcs, LAMBDA x : x.score >= min_score - ScoreSlack)
    IN  [i \in 1..Len(Addable(pass)) |->
            [type |-> "web", scored |-> TRUE, score |-> Addable(pass)[i].score]]

\* academic_node: every source the agent returned is added, none is scored
IndexedAcademic(srcs) ==
    [i \in 1..Len(Addable(srcs)) |-> [type |-> "academic", scored |-> FALSE, score |-> 0]]

\* either the questions and max_gap_iterations vary and the agents return
\* nothing, or one pending question is searched under the default depth limit
\* and the returned sources and the threshold vary
RoundInit ==
    /\ \/ /\ node_questions \in NodeQuestionLists
          /\ max_gap_iterations \in 0..MaxQDepth
          /\ min_quality_score = DefaultMinQuality
          /\ quality_sources = <<>>
          /\ academic_sources = <<>>
       \/ /\ node_questions = <<[id |-> 1, status |-> "pending", depth |-> 0]>>
          /\ max_gap_iterations = DefaultMaxGapIterations
          /\ min_quality_score \in 0..ScoreScale
          /\ quality_sources \in SeqsUpTo([score : 0..ScoreScale, snippet : BOOLEAN], MaxSrc)
          /\ academic_sources \in SeqsUpTo([snippet : BOOLEAN], MaxSrc)
    /\ active_questions = [n \in RoundNodes |-> NotRun]
    /\ vector_store = <<>>
    /\ LoopOff /\ LimiterOff /\ EditorOff /\ QualityOff /\ ExtractOff /\ AgentOff
    /\ LateOff

roundOthers == <<loopVars, limiterVars, editorVars, qualityVars, extractVars, agentVars,
                 lateVars>>
roundInputs == <<max_gap_iterations, min_quality_score, node_questions,
                 quality_sources, academic_sources>>

Handed(node, rq) == [active_questions EXCEPT ![node] = [ran |-> TRUE, ids |-> Ids(rq)]]

RunWebSearchNode ==
    /\ ~active_questions["web_search_node"].ran
    /\ LET active == ActiveQuestionsAt(node_questions, max_gap_iterations)
       IN  /\ active_questions' = Handed("web_search_node", active)
           /\ vector_store' = IF active = <<>> THEN vector_store
                               ELSE vector_store \o IndexedWeb(quality_sources, min_quality_score)
    /\ UNCHANGED <<roundInputs, roundOthers>>

RunAcademicNode ==
    /\ ~active_questions["academic_node"].ran
    /\ LET active == ActiveQuestionsAt(node_questions, max_gap_iterations)
       IN  /\ active_questions' = Handed("academic_node", active)
           /\ vector_store' = IF active = <<>> THEN vector_store
                               ELSE vector_store \o IndexedAcademic(academic_sources)
    /\ UNCHANGED <<roundInputs, roundOthers>>

RunKnowledgeGraphNode ==
    /\ ~active_questions["knowledge_graph_node"].ran
    /\ active_questions' = Handed("knowledge_graph_node", PendingQuestions(node_questions))
    /\ UNCHANGED <<vector_store, roundInputs, roundOthers>>

RunGapAnalysisNode ==
    /\ ~active_questions["gap_analysis_node"].ran
    /\ active_questions' = Handed("gap_analysis_node", PendingQuestions(node_questions))
    /\ UNCHANGED <<vector_store, roundInputs, roundOthers>>

NextRound ==
    \/ RunWebSearchNode
    \/ RunAcademicNode
    \/ RunKnowledgeGraphNode
    \/ RunGapAnalysisNode

SpecRound == RoundInit /\ [][NextRound]_vars

\* -------------------------------------------------- token_usage, merge_usage
\* the keys "Role: <role> | Model: <model>" of ModelTokenTracker.on_llm_end
UsageKeys == {"Role: planner", "Role: searcher"}

\* the order in which a dict over UsageKeys is iterated
KeyOrder == <<"Role: planner", "Role: searcher">>

\* the nested dicts {"input": i, "output": o, "total": t} a node can report
TokenCounts ==
    {[input |-> p[1], output |-> p[2], total |-> p[1] + p[2]] :
        p \in {q \in (0..MaxTokens) \X (0..MaxTokens) : q[1] + q[2] <= MaxTokens}}

\* the contents of a delta: some keys, each with its counts
UsageValues == UNION {[K -> TokenCounts] : K \in SUBSET UsageKeys}

\* a variant of AddCounts that keeps the new counts only
AddCounts_Overwrite(old, v) == v

\* "merged[model][k] = merged[model].get(k, 0) + v" for the three fields k
AddCounts(old, v) ==
    [input |-> old.input + v.input, output |-> old.output + v.output,
     total |-> old.total + v.total]

\* what a dict of references holds, read through the heap h
Value(d, h) == [k \in DOMAIN d |-> h[d[k]]]

\* d with one more item (d[k] = ref)
SetItem(d, k, ref) == [x \in DOMAIN d \cup {k} |-> IF x = k THEN ref ELSE d[x]]

\* a dict built item by item from the contents v, every nested dict a new object
\* ("total_delta[key] = counts.copy()" of _collect_token_usage)
RECURSIVE NewDict(_, _, _, _)
NewDict(d, h, v, ks) ==
    IF ks = <<>> THEN [dict |-> d, heap |-> h]
    ELSE IF Head(ks) \in DOMAIN v
         THEN NewDict(SetItem(d, Head(ks), Len(h) + 1), Append(h, v[Head(ks)]),
                      v, Tail(ks))
         ELSE NewDict(d, h, v, Tail(ks))

\* "for model, counts in new_data.items()": a key the merged dict lacks gets a
\* copy of the counts, a key it has is accumulated into the nested dict that
\* merged[model] refers to
RECURSIVE MergeItems(_, _, _, _)
MergeItems(merged, new_data, h, ks) ==
    IF ks = <<>> THEN [merged |-> merged, heap |-> h]
    ELSE LET model == Head(ks)
         IN  IF model \notin DOMAIN new_data
             THEN MergeItems(merged, new_data, h, Tail(ks))
             ELSE IF model \notin DOMAIN merged
                  THEN MergeItems(SetItem(merged, model, Len(h) + 1), new_data,
                                  Append(h, h[new_data[model]]), Tail(ks))
                  ELSE MergeItems(merged, new_data,
                                  [h EXCEPT ![merged[model]] =
                                       AddCounts(@, h[new_data[model]])],
                                  Tail(ks))

\* merge_usage: "new_data.copy()" and "current.copy()" copy the dict of
\* references, not the nested dicts
merge_usage(current, new_data, h) ==
    IF DOMAIN current = {}
    THEN [merged |-> new_data, heap |-> h]
    ELSE MergeItems(current, new_data, h, KeyOrder)

\* the plain sum of a ledger and the contents of one delta
Ledger(ledger, v) ==
    [k \in DOMAIN ledger \cup DOMAIN v |->
        IF k \notin DOMAIN v THEN ledger[k]
        ELSE IF k \notin DOMAIN ledger THEN v[k]
        ELSE [input |-> ledger[k].input + v[k].input,
              output |-> ledger[k].output + v[k].output,
              total |-> ledger[k].total + v[k].total]]

\* the nodes of one superstep: WebDiscovery and AcademicDiscovery
Branches == 2

\* token_usage is {} (gauntlet.py _approve_plan) or what the reducer made of
\* an earlier node's delta
UsageInit ==
    /\ usage_pc = "nodes"
    /\ pending_writes = <<>>
    /\ writes_applied = 0
    /\ \E v \in UsageValues :
         LET delta == NewDict(EmptyDict, <<>>, v, KeyOrder)
             first == merge_usage(EmptyDict, delta.dict, delta.heap)
         IN  /\ token_usage = first.merged
             /\ usage_heap = first.heap
             /\ usage_ledger = v
    /\ LoopOff /\ LimiterOff /\ EditorOff /\ QualityOff
    /\ ExtractOff /\ AgentOff /\ RoundOff /\ TrackerOff /\ SynthOff

usageOthers == <<loopVars, limiterVars, editorVars, qualityVars, extractVars,
                 agentVars, roundVars, trackerVars, synthVars>>

\* a node of the superstep returns the delta _collect_token_usage built
NodeReturns ==
    /\ usage_pc = "nodes"
    /\ Len(pending_writes) < Branches
    /\ \E v \in UsageValues :
         LET delta == NewDict(EmptyDict, usage_heap, v, KeyOrder)
         IN  /\ pending_writes' = Append(pending_writes, delta.dict)
             /\ usage_heap' = delta.heap
    /\ UNCHANGED <<usage_pc, token_usage, usage_ledger, writes_applied, usageOthers>>

\* the superstep ends: the reducer is called once per returned delta
ApplyWrite ==
    /\ usage_pc \in {"nodes", "writes"}
    /\ pending_writes # <<>>
    /\ LET call == merge_usage(token_usage, Head(pending_writes), usage_heap)
       IN  /\ token_usage' = call.merged
           /\ usage_heap' = call.heap
           /\ usage_ledger' = Ledger(usage_ledger, Value(Head(pending_writes), usage_heap))
    /\ pending_writes' = Tail(pending_writes)
    /\ writes_applied' = writes_applied + 1
    /\ usage_pc' = "writes"
    /\ UNCHANGED usageOthers

NextUsage ==
    \/ NodeReturns
    \/ ApplyWrite

SpecUsage == UsageInit /\ [][NextUsage]_vars

\* ------------------------------------- token trackers under the two branches
\* the threads that run web_search_node and academic_node in one superstep
NodeThreads == {"web_search_node", "academic_node"}

\* the trackers of search_agent and academic_agent, in the order in which
\* _get_llm appended them to self.trackers; both have the role "researcher"
Trackers == <<"search_agent", "academic_agent">>

\* the tracker whose on_llm_end runs in the thread of a node
TrackerOf(th) == IF th = "web_search_node" THEN "search_agent" ELSE "academic_agent"

\* the key on_llm_end builds: both trackers have the same role and model
TrackerKey == "Role: researcher"

\* {"input": 0, "output": 0, "total": 0}
ZeroCounts == [input |-> 0, output |-> 0, total |-> 0]

\* "total_delta[key][f] += counts[f]" for the three fields f
SumCounts(a, b) ==
    [input |-> a.input + b.input, output |-> a.output + b.output,
     total |-> a.total + b.total]

\* the fields on_llm_end adds to, in the order of its statements
AddSteps == <<"add_input", "add_output", "add_total">>

TrackersInit ==
    /\ delta_usage = [tr \in {Trackers[i] : i \in 1..Len(Trackers)} |-> EmptyDict]
    /\ tracker_heap = <<>>
    /\ node_threads = [th \in NodeThreads |->
                          [pc |-> "run", calls |-> 0, usage |-> ZeroCounts,
                           idx |-> 0, data |-> EmptyDict, total_delta |-> EmptyDict]]
    /\ recorded = ZeroCounts
    /\ LoopOff /\ LimiterOff /\ EditorOff /\ QualityOff
    /\ ExtractOff /\ AgentOff /\ RoundOff /\ UsageOff /\ SynthOff

trackerOthers == <<loopVars, limiterVars, editorVars, qualityVars, extractVars,
                   agentVars, roundVars, usageVars, synthVars>>

\* an LLM call of the node's agent ends: on_llm_end starts with the usage the
\* response reports and tests "key not in self.delta_usage"
OnLlmEnd(th) ==
    /\ node_threads[th].pc = "run"
    /\ node_threads[th].calls < MaxLlmCalls
    /\ \E usage \in TokenCounts :
         node_threads' = [node_threads EXCEPT ![th] =
             [@ EXCEPT !.calls = node_threads[th].calls + 1,
                       !.usage = usage,
                       !.pc = IF TrackerKey \in DOMAIN delta_usage[TrackerOf(th)]
                              THEN "add_input" ELSE "insert"]]
    /\ UNCHANGED <<delta_usage, tracker_heap, recorded, trackerOthers>>

\* self.delta_usage[key] = {"input": 0, "output": 0, "total": 0}
InsertKey(th) ==
    /\ node_threads[th].pc = "insert"
    /\ tracker_heap' = Append(tracker_heap, ZeroCounts)
    /\ delta_usage' = [delta_usage EXCEPT ![TrackerOf(th)] =
                          SetItem(@, TrackerKey, Len(tracker_heap) + 1)]
    /\ node_threads' = [node_threads EXCEPT ![th].pc = "add_input"]
    /\ UNCHANGED <<recorded, trackerOthers>>

\* one of the three statements self.delta_usage[key][f] += usage.get(...): the
\* lookup of key raises KeyError when delta_usage was replaced in the meantime
\* and the callback ends there
AddField(th) ==
    /\ \E i \in 1..Len(AddSteps) :
         /\ node_threads[th].pc = AddSteps[i]
         /\ IF TrackerKey \in DOMAIN delta_usage[TrackerOf(th)]
            THEN LET ref == delta_usage[TrackerOf(th)][TrackerKey]
                     u == node_threads[th].usage
                 IN  /\ tracker_heap' = [tracker_heap EXCEPT ![ref] =
                            CASE i = 1 -> [@ EXCEPT !.input = @ + u.input]
                              [] i = 2 -> [@ EXCEPT !.output = @ + u.output]
                              [] OTHER -> [@ EXCEPT !.total = @ + u.total]]
                     /\ recorded' =
                            CASE i = 1 -> [recorded EXCEPT !.input = @ + u.input]
                              [] i = 2 -> [recorded EXCEPT !.output = @ + u.output]
                              [] OTHER -> [recorded EXCEPT !.total = @ + u.total]
                     /\ node_threads' = [node_threads EXCEPT ![th].pc =
                            IF i < Len(AddSteps) THEN AddSteps[i + 1] ELSE "run"]
            ELSE /\ node_threads' = [node_threads EXCEPT ![th].pc = "run"]
                 /\ UNCHANGED <<tracker_heap, recorded>>
    /\ UNCHANGED <<delta_usage, trackerOthers>>

\* the node calls _collect_token_usage: total_delta = {}, the loop starts
CollectTokenUsage(th) ==
    /\ node_threads[th].pc = "run"
    /\ node_threads' = [node_threads EXCEPT ![th] =
                           [@ EXCEPT !.pc = "copy", !.idx = 1,
                                     !.total_delta = EmptyDict]]
    /\ UNCHANGED <<delta_usage, tracker_heap, recorded, trackerOthers>>

\* get_and_reset_delta: data = self.delta_usage.copy()
CopyDelta(th) ==
    /\ node_threads[th].pc = "copy"
    /\ node_threads' = [node_threads EXCEPT ![th] =
                           [@ EXCEPT !.pc = "reset",
                                     !.data = delta_usage[Trackers[node_threads[th].idx]]]]
    /\ UNCHANGED <<delta_usage, tracker_heap, recorded, trackerOthers>>

\* get_and_reset_delta: self.delta_usage = {}; return data
ResetDelta(th) ==
    /\ node_threads[th].pc = "reset"
    /\ delta_usage' = [delta_usage EXCEPT ![Trackers[node_threads[th].idx]] = EmptyDict]
    /\ node_threads' = [node_threads EXCEPT ![th].pc = "add"]
    /\ UNCHANGED <<tracker_heap, recorded, trackerOthers>>

\* "for key, counts in delta.items()": the counts are copied or added to
\* total_delta; after the last tracker the node returns total_delta
AddToTotal(th) ==
    /\ node_threads[th].pc = "add"
    /\ LET me == node_threads[th]
           total == IF TrackerKey \notin DOMAIN me.data THEN me.total_delta
                    ELSE IF TrackerKey \notin DOMAIN me.total_delta
                         THEN SetItem(me.total_delta, TrackerKey,
                                      tracker_heap[me.data[TrackerKey]])
                         ELSE SetItem(me.total_delta, TrackerKey,
                                      SumCounts(me.total_delta[TrackerKey],
                                                tracker_heap[me.data[TrackerKey]]))
       IN  node_threads' = [node_threads EXCEPT ![th] =
               [@ EXCEPT !.total_delta = total,
                         !.data = EmptyDict,
                         !.idx = IF me.idx < Len(Trackers) THEN me.idx + 1 ELSE 0,
                         !.pc = IF me.idx < Len(Trackers) THEN "copy" ELSE "done"]]
    /\ UNCHANGED <<delta_usage, tracker_heap, recorded, trackerOthers>>

NextTrackers ==
    \E th \in NodeThreads :
        \/ OnLlmEnd(th)
        \/ InsertKey(th)
        \/ AddField(th)
        \/ CollectTokenUsage(th)
        \/ CopyDelta(th)
        \/ ResetDelta(th)
        \/ AddToTotal(th)

SpecTrackers == TrackersInit /\ [][NextTrackers]_vars

\* ------------------------------------------------------------ synthesis_node
\* state["research_questions"]: the plan editor numbers a new row by the row
\* count, so ids can repeat and can be out of order
SynthQuestionLists ==
    UNION {[1..n -> [id : 1..MaxSynthQ, status : Statuses]] : n \in 0..MaxSynthQ}

\* what SectionWriterAgent.run returns: the text of the response, or the
\* placeholder of its except branch when self.llm.invoke raised
SectionWriterRun(llm) ==
    IF llm = "raises" THEN "Error drafting section" ELSE "section_text"

SynthInit ==
    /\ synth_pc = "sort"
    /\ synth_questions \in SynthQuestionLists
    /\ synth_all_questions = <<>>
    /\ report_sections = <<>>
    /\ synth_return = NoResult
    /\ failed_sections = {}
    /\ LoopOff /\ LimiterOff /\ EditorOff /\ QualityOff
    /\ ExtractOff /\ AgentOff /\ RoundOff /\ UsageOff /\ TrackerOff

synthOthers == <<loopVars, limiterVars, editorVars, qualityVars, extractVars,
                 agentVars, roundVars, usageVars, trackerVars>>

\* all_questions = sorted(state["research_questions"], key=lambda x: x['id'])
SortQuestions ==
    /\ synth_pc = "sort"
    /\ synth_all_questions' = SortById(synth_questions)
    /\ synth_pc' = "loop"
    /\ UNCHANGED <<synth_questions, report_sections, synth_return, failed_sections,
                   synthOthers>>

\* a variant of WriteSection that passes over an analyzed question
WriteSection_PendingOnly ==
    /\ synth_pc = "loop"
    /\ Len(report_sections) < Len(synth_all_questions)
    /\ LET at == Len(report_sections) + 1
           q == synth_all_questions[at]
       IN  IF q.status = "analyzed"
           THEN /\ synth_all_questions' =
                       [k \in 1..(Len(synth_all_questions) - 1) |->
                           IF k < at THEN synth_all_questions[k]
                           ELSE synth_all_questions[k + 1]]
                /\ report_sections' = report_sections
           ELSE /\ report_sections' = Append(report_sections,
                       [id |-> q.id, status |-> q.status,
                        section_text |-> SectionWriterRun("returns")])
                /\ synth_all_questions' = synth_all_questions
    /\ UNCHANGED <<synth_pc, synth_questions, synth_return, failed_sections,
                   synthOthers>>

\* one pass of "for q in all_questions": the fragments are queried, the writer
\* runs and "## question, section_text" is appended
WriteSection ==
    /\ synth_pc = "loop"
    /\ Len(report_sections) < Len(synth_all_questions)
    /\ LET q == synth_all_questions[Len(report_sections) + 1]
       IN  \E llm \in {"returns", "raises"} :
             /\ report_sections' = Append(report_sections,
                    [id |-> q.id, status |-> q.status,
                     section_text |-> SectionWriterRun(llm)])
             /\ failed_sections' = IF llm = "raises"
                                   THEN failed_sections \cup {Len(report_sections) + 1}
                                   ELSE failed_sections
    /\ UNCHANGED <<synth_pc, synth_questions, synth_all_questions, synth_return,
                   synthOthers>>

\* the loop is over: the node returns final_report and is_complete
ReturnReport ==
    /\ synth_pc = "loop"
    /\ Len(report_sections) >= Len(synth_all_questions)
    /\ synth_return' = [tag |-> "returned", final_report |-> report_sections,
                        is_complete |-> TRUE]
    /\ synth_pc' = "done"
    /\ UNCHANGED <<synth_questions, synth_all_questions, report_sections,
                   failed_sections, synthOthers>>

NextSynth ==
    \/ SortQuestions
    \/ WriteSection
    \/ ReturnReport

SpecSynth == SynthInit /\ [][NextSynth]_vars

\* ===================================================================== claims

\* C1 (as claimed): every run that is not stopped ends in Synthesis and the
\* terminal state, with a complete report, after at most max(max_iterations, 1)
\* passes through GapAnalysis.  Stated for runs under the default step limit,
\* which no run within the bounds reaches.
C1_RunReachesSynthesis ==
    (signal # "none" /\ is_running /\ recursion_limit = DefaultRecursionLimit)
        => /\ signal = "finished"
           /\ pc = "END"
           /\ is_complete
           /\ gapPasses <= (IF max_iterations <= 1 THEN 1 ELSE max_iterations)

\* C2: whenever iteration_count >= max_iterations, should_continue returns finish,
\* whatever the pending questions; so no continue was decided at the ceiling.
C2_CeilingFinishes ==
    iteration_count >= max_iterations
        => /\ should_continue(research_questions, iteration_count, max_iterations) = "finish"
           /\ lastDecision # "continue"

\* C2 witness: the ceiling ended a run that still had two pending questions
C2_Witness ==
    /\ pc = "synthesis_node"
    /\ lastDecision = "finish"
    /\ iteration_count >= max_iterations
    /\ Len(PendingQuestions(research_questions)) = 2

\* C3: with no pending question should_continue returns finish, whatever
\* iteration_count is; a continue decision leaves a pending question behind.
C3_NoPendingFinishes ==
    /\ PendingQuestions(research_questions) = <<>>
         => should_continue(research_questions, iteration_count, max_iterations) = "finish"
    /\ (lastDecision = "continue" /\ pc = "decompose_node")
         => PendingQuestions(research_questions) # <<>>

\* C3 witness: finish was decided below the ceiling, on an empty question list
C3_Witness ==
    /\ pc = "synthesis_node"
    /\ lastDecision = "finish"
    /\ research_questions = <<>>
    /\ iteration_count < max_iterations

\* C4: iteration_count equals the number of completed GapAnalysis passes: each
\* pass adds exactly 1 (no-op passes and passes without gaps too) and nothing
\* else changes it.
C4_IterationCountsPasses == iteration_count = gapPasses

\* C4 witness: two passes, the second a no-op without pending questions
C4_Witness ==
    /\ gapPasses = 2
    /\ iteration_count = 2
    /\ research_questions = <<>>
    /\ identified_gaps = <<>>

\* C5 (as claimed): a run driven with the GUI's step limit that is neither stopped
\* nor aborted by a node's exception ends on the normal path: finished, with the
\* report emitted and is_complete set.
C5_CeilingEndsNormally ==
    (/\ signal \notin {"none", "error"}
     /\ is_running
     /\ recursion_limit = GuiRecursionLimit(max_iterations))
        => (signal = "finished" /\ is_complete /\ reportEmitted)

\* C6 (as claimed): every question present before a step is present after it,
\* with the same id and text.
C6_QuestionsOnlyGrow ==
    [][\A i \in 1..Len(research_questions) :
          \E j \in 1..Len(research_questions') :
             /\ research_questions'[j].id = research_questions[i].id
             /\ research_questions'[j].question = research_questions[i].question]_vars

\* the sources of a pass, in the graph's task order
InTaskOrder == IF writeOrder = "web_first" THEN web_out \o acad_out
               ELSE acad_out \o web_out

DeterministicMerge ==
    pc = "knowledge_graph_node" => sources = sourcesAtFanOut \o InTaskOrder

C8_EmptyGapsChangeNothing ==
    [][(pc = "decompose_node" /\ identified_gaps = <<>> /\ iteration_count > 0)
          => research_questions' = research_questions]_vars

AllGapsRelateTo(q) == \A k \in 1..Len(identified_gaps) : identified_gaps[k] = q.id

\* C9 (as claimed): a Planning pass whose gaps all relate to one existing
\* question q completes, turns every pending question into analyzed and appends
\* only pending children of q, with depth q.depth + 1 and ids continuing after
\* the largest existing id.
C9_FollowUpsAreChildren ==
    [][(/\ pc = "decompose_node" /\ pc' # pc
        /\ step < recursion_limit /\ ~StopRequested(is_running)
        /\ iteration_count > 0 /\ identified_gaps # <<>>
        /\ \E q \in Range(research_questions) : AllGapsRelateTo(q))
          => /\ signal' = "none"
             /\ Len(research_questions') >= Len(research_questions)
             /\ \E q \in Range(research_questions) :
                 /\ AllGapsRelateTo(q)
                 /\ \A j \in 1..Len(research_questions') :
                     IF j <= Len(research_questions)
                     THEN research_questions'[j] =
                            [research_questions[j] EXCEPT !.status = "analyzed"]
                     ELSE /\ research_questions'[j].parent_id = q.id
                          /\ research_questions'[j].depth = q.depth + 1
                          /\ research_questions'[j].status = "pending"
                          /\ research_questions'[j].id =
                               MaxOf({r.id : r \in Range(research_questions)})
                                 + (j - Len(research_questions))]_vars

\* C10: once Stop() was invoked while web_search_node was executing, the loop
\* halts in the discovery superstep: knowledge_graph_node does not run again,
\* iteration_count keeps its value from the start of the pass and is_complete
\* stays false.
C10_StopDuringWebHalts ==
    stopInWeb.set
        => /\ kgRuns = stopInWeb.kg
           /\ pc \in {"discovery", "halted"}
           /\ signal \in {"none", "finished"}
           /\ iteration_count = stopInWeb.iter
           /\ ~is_complete

\* C10 witness: Stop() during web_search_node of the second pass, loop halted
C10_Witness ==
    /\ stopInWeb.set
    /\ stopInWeb.iter = 1
    /\ pc = "halted"
    /\ signal = "finished"
    /\ kgRuns = 1

\* C11 (as claimed): the worker emits the node name and delta of every completed
\* transition, in completion order, none skipped: the emitted events are
\* exactly the completed node calls, the one at which a Stop() is honoured too.
C11_EveryTransitionEmitted == emitted = completedNodes

C13_NoFailureAborts == signal # "error"

\* C14 (as claimed): a GapAnalysis pass that yields no gaps ends the loop: the
\* next node is Synthesis, no further Planning or discovery pass runs.
C14_EmptyGapsFinish ==
    [][(/\ pc = "gap_analysis_node"
        /\ pc' \notin {"gap_analysis_node", "halted"}
        /\ identified_gaps' = <<>>)
          => pc' = "synthesis_node"]_vars

\* C15 (as claimed): a run continued under the same session id after the safety
\* limit starts from the last checkpointed state: iteration_count,
\* research_questions and identified_gaps keep the values they had after the
\* last completed transition.
C15_ContinueResumes ==
    [][(signal = "recursion_error" /\ signal' = "none")
          => /\ iteration_count' = iteration_count
             /\ research_questions' = research_questions
             /\ identified_gaps' = identified_gaps]_vars

\* C16 (as claimed): the report generated on request after the safety limit has
\* one section for every question accumulated up to that point, and no
\* discovery pass runs for it.
C16_ReportCoversAccumulated ==
    generated_report.ready
        => /\ generated_report.sections = synthesis_node(research_questions).final_report
           /\ pc = "halted"

\* C17 (as claimed): with max_iterations = 1 and no candidates from either
\* discovery branch, a run that is not stopped finishes after exactly one pass:
\* iteration_count = 1, is_complete set, and a report with one section for each
\* question of the list the first Planning pass left.
C17_OnePassNoCandidates ==
    (max_iterations = 1 /\ is_running /\ signal # "none" /\ sources = <<>>)
        => /\ signal = "finished" /\ pc = "END"
           /\ iteration_count = 1 /\ gapPasses = 1
           /\ is_complete /\ reportEmitted
           /\ Len(final_report) = Len(research_questions)
           /\ \A i \in 1..Len(research_questions) :
                 \E j \in 1..Len(final_report) : final_report[j] = research_questions[i].id

\* C18 (as claimed): the questions of research_questions have pairwise
\* distinct ids, whatever add, delete and edit steps the plan went through in
\* the plan editor before it was approved.
C18_IdsDistinct ==
    \A i, j \in 1..Len(research_questions) :
        i # j => research_questions[i].id # research_questions[j].id

\* the score of a returned source as a number: src.get('score', 0), and 0 for a
\* score that is not a number
ScoreValue(src) == IF src.score.tag = "number" THEN src.score.value ELSE 0

RECURSIVE SumScores(_)
SumScores(srcs) ==
    IF srcs = <<>> THEN 0 ELSE ScoreValue(srcs[1]) + SumScores(Tail(srcs))

\* the candidates whose answer was a dict, or a list starting with one
Scored(cands) == SelectSeq(cands, LAMBDA a : a.kind \in {"dict", "list_of_dicts"})

C21_PlanningThreeWay ==
    [][(/\ pc = "decompose_node" /\ pc' # pc
        /\ step < recursion_limit /\ ~StopRequested(is_running))
          => /\ pc' = "discovery"
             /\ IF iteration_count = 0 /\ research_questions # <<>>
                THEN research_questions' = research_questions
                ELSE IF identified_gaps # <<>> /\ iteration_count > 0
                THEN research_questions' \in
                       {ExpandQuestions(nqd, research_questions) : nqd \in NewQuestionData}
                ELSE research_questions' \in
                       {FormatQuestions(texts) : texts \in DecomposeOutputs}]_vars

\* C23: knowledge_graph_node runs only after web_search_node and academic_node
\* of the same pass have both completed (in either order), once per pass, and
\* the state it gets holds the sources of both branches.
C23_JoinBeforeStructuring ==
    /\ \A i \in 1..Len(completedNodes) :
          /\ completedNodes[i] = "knowledge_graph_node"
                => /\ i > 2
                   /\ {completedNodes[i - 1], completedNodes[i - 2]}
                        = {"web_search_node", "academic_node"}
          /\ completedNodes[i] = "gap_analysis_node"
                => i > 1 /\ completedNodes[i - 1] = "knowledge_graph_node"
    /\ pc = "knowledge_graph_node"
          => /\ webSt = "done" /\ acadSt = "done"
             /\ Len(sources) = Len(sourcesAtFanOut) + Len(web_out) + Len(acad_out)
             /\ \A x \in Range(web_out) \cup Range(acad_out) :
                   Count(x, sources) = Count(x, sourcesAtFanOut)
                                         + Count(x, web_out) + Count(x, acad_out)

\* C23 witness: the second pass is at the barrier, the academic branch finished
\* first and both branches returned a source
C23_Witness ==
    /\ pc = "knowledge_graph_node"
    /\ kgRuns = 1
    /\ firstDone = "academic"
    /\ web_out # <<>> /\ acad_out # <<>>

\* C24 (as claimed): a Planning pass whose gaps all name a question id that
\* does not exist creates no follow-up question, and the run continues.
C24_UnknownGapDropped ==
    [][(/\ pc = "decompose_node" /\ pc' # pc
        /\ step < recursion_limit /\ ~StopRequested(is_running)
        /\ iteration_count > 0 /\ identified_gaps # <<>>
        /\ \A k \in 1..Len(identified_gaps) :
              \A q \in Range(research_questions) : q.id # identified_gaps[k])
          => /\ pc' = "discovery"
             /\ Len(research_questions') = Len(research_questions)]_vars

\* C30: no caller of _wait_for_slot sleeps while it holds the limiter's lock:
\* the lock is held only by a caller inside the reservation block, so a sleeping
\* caller never keeps another caller from reserving.
C30_NoSleepUnderLock ==
    /\ \A t \in DOMAIN callers : callers[t].st = "sleeping" => lock # t
    /\ lock # "free" => callers[lock].st = "locked"

\* C30 witness: one caller reserved its slot while the other was asleep, and
\* both are now asleep before their slots
C30_Witness ==
    /\ \A t \in DOMAIN callers : callers[t].st = "sleeping" /\ clock < callers[t].wake
    /\ DOMAIN callers = Threads
    /\ lock = "free"

\* the parsers of the chain that produce a value from the text, in order
Succeeding(t) == SelectSeq(Parsers, LAMBDA name : Found(t, name) \in JsonValues)

\* C29 (as claimed): extract_json_from_text returns the value of the first
\* parser, in the order fence, list, object, raw, that produces a value, and
\* None when no parser produces one; it never raises.
C29_FirstSuccessWins ==
    result # NoResult =>
        result = IF Succeeding(extract_text) = <<>>
                 THEN [tag |-> "None"]
                 ELSE [tag |-> "value",
                       value |-> Found(extract_text, Head(Succeeding(extract_text)))]

\* C25 (as claimed): every search or lookup request a discovery agent issues,
\* the follow-up requests included, comes after a _wait_for_slot call of its
\* own, made after the previous request.
C25_EveryRequestReserved == ~unreserved

\* C26 (as claimed): when a search request of a question fails, the remaining
\* queries generated for that question are still executed, the results
\* collected so far are kept and the next question is taken: at the return
\* every generated query of every question was started.
C26_SiblingQueriesRun ==
    apc = "returned" =>
        \A i \in DOMAIN planned : started[i] = planned[i]

\* C27 (as claimed): the web agent issues at most three requests per query
\* whatever depth is passed and exactly one at depth 1, a deeper request only
\* when the one before returned a result, and each deeper request asks for
\* strictly fewer results than the one before.
C27_RoundsBounded ==
    agent = "web" =>
        /\ Len(rounds) <= 3
        /\ depth = 1 => Len(rounds) <= 1
        /\ (apc = "next_query" /\ query_index > 0) => Len(rounds) >= 1
        /\ \A i \in 2..Len(rounds) :
              /\ rounds[i - 1].outcome.tag = "hits"
              /\ rounds[i - 1].outcome.n > 0
              /\ rounds[i].max_results < rounds[i - 1].max_results

\* the pending questions at or beyond the configured maximum depth
TooDeep == {node_questions[i].id : i \in {j \in 1..Len(node_questions) :
               /\ node_questions[j].status = "pending"
               /\ node_questions[j].depth >= max_gap_iterations}}

\* C22 (as claimed): a pending question whose depth is at or beyond
\* max_gap_iterations is handed to neither the web discovery, nor the academic
\* discovery, nor the gap analysis of a pass.
C22_DeepQuestionsExcluded ==
    \A node \in {"web_search_node", "academic_node", "gap_analysis_node"} :
        Range(active_questions[node].ids) \cap TooDeep = {}

\* C28 (as claimed): a source is in the knowledge index only if it was scored
\* and its score is at least min_quality_score.
C28_IndexedPassThreshold ==
    \A i \in 1..Len(vector_store) :
        vector_store[i].scored /\ vector_store[i].score >= min_quality_score

TerminalSignals == {"finished", "recursion_error", "error"}

\* C37: a run emits one terminal signal (finished, recursion_error or error)
\* and nothing after it: once a terminal signal is out, neither the signal nor
\* the emitted node outputs change; a run that has ended has emitted one; and a
\* run halted by Stop() has emitted finished and no report.
C37_OneTerminalSignal ==
    [][/\ signal # "none" =>
            /\ signal' = signal
            /\ emitted' = emitted
            /\ reportEmitted' = reportEmitted
       /\ signal' \in TerminalSignals \cup {"none"}
       /\ pc' \in {"END", "halted"} <=> signal' \in TerminalSignals
       /\ (pc' = "halted" /\ signal' = "finished") =>
            /\ ~is_running'
            /\ ~reportEmitted']_vars

\* C37 witness: Stop() was honoured at the event of synthesis_node: the run
\* ended with finished and the report was not emitted
C37_Witness ==
    /\ pc = "halted" /\ signal = "finished"
    /\ completedNodes # <<>>
    /\ completedNodes[Len(completedNodes)] = "synthesis_node"
    /\ ~reportEmitted

Max(a, b) == IF a > b THEN a ELSE b

\* thread t runs the reservation block in this step
Reserves(t) == callers[t].st = "locked" /\ callers'[t].st = "sleeping"

\* C31 (as claimed): every reservation, in one step under the lock, computes
\* wait = max(0, next_available_time - now) and advances next_available_time
\* by exactly one interval.
C31_AdvancesOneInterval ==
    [][\A t \in Threads : Reserves(t) =>
          /\ lock = t
          /\ callers'[t].wake - clock = Max(0, next_available_time - clock)
          /\ next_available_time' =
                next_available_time + EnforcedDelay(requested_delay)]_vars

\* C31 (amended): every reservation, in one step under the lock, computes
\* wait = max(0, next_available_time - now) and sets next_available_time to
\* max(now, next_available_time) plus one interval: an early or on-time caller
\* advances it by one interval, a late caller restarts it from now.
C31_AdvancesFromLaterOfNowAndNext ==
    [][\A t \in Threads : Reserves(t) =>
          /\ lock = t
          /\ callers'[t].wake - clock = Max(0, next_available_time - clock)
          /\ next_available_time' =
                Max(clock, next_available_time) + EnforcedDelay(requested_delay)]_vars

\* C31 witness: the last reservation was made by a late caller, after an
\* early one: its slot is now, more than one interval after the slot before
C31_Witness ==
    /\ Len(slots) >= 3
    /\ slots[2] = slots[1] + EnforcedDelay(requested_delay)
    /\ slots[Len(slots)] > slots[Len(slots) - 1] + EnforcedDelay(requested_delay)
    /\ next_available_time = slots[Len(slots)] + EnforcedDelay(requested_delay)
    /\ \E t \in DOMAIN callers :
          callers[t].st = "sleeping" /\ callers[t].slot = slots[Len(slots)]

\* C32: under fair scheduling every call of _wait_for_slot returns: a caller
\* that waits for the lock, holds it or sleeps is eventually back from the call.
C32_EveryCallReturns ==
    \A t \in Threads : (callers[t].st # "idle") ~> (callers[t].st = "idle")

\* C32 witness: both threads called at the same time, one had to wait for the
\* lock and then for its slot, and both calls have returned
C32_Witness ==
    /\ Len(returns) = 2
    /\ \A t \in DOMAIN callers : callers[t].done = 1 /\ callers[t].first = 0
    /\ \E i \in 1..Len(returns) : returns[i].slot > 0
    /\ lock = "free"

\* C35: the slots handed out are pairwise at least enforced_delay apart, and
\* next_available_time never decreases.
C35_SlotsApartAndMonotone ==
    [][/\ next_available_time' >= next_available_time
       /\ \A i, j \in 1..Len(slots') :
             i < j => slots'[j] - slots'[i] >= EnforcedDelay(requested_delay)]_vars

\* C35 witness: both threads have made calls that returned, one slot was
\* reserved by an early caller and a later one by a late caller
C35_Witness ==
    /\ Len(slots) = 3
    /\ \A t \in DOMAIN callers : callers[t].done >= 1
    /\ \E i \in 2..Len(slots) : slots[i] = slots[i - 1] + EnforcedDelay(requested_delay)
    /\ \E i \in 2..Len(slots) : slots[i] > slots[i - 1] + EnforcedDelay(requested_delay)

\* the contents of token_usage after the reducer took the deltas first and
\* second, in this order
MergedInOrder(first, second) ==
    LET a == merge_usage(token_usage, first, usage_heap)
        b == merge_usage(a.merged, second, a.heap)
    IN  Value(b.merged, b.heap)

\* C34: token_usage holds, for every key and for each of input, output and
\* total, the sum of the values of all node deltas merged so far, and the two
\* deltas of a superstep give the same totals in either order.
C34_UsageIsSumOfDeltas ==
    usage_pc # "off" =>
        /\ Value(token_usage, usage_heap) = usage_ledger
        /\ (Len(pending_writes) = Branches /\ writes_applied = 0) =>
               MergedInOrder(pending_writes[1], pending_writes[2])
                   = MergedInOrder(pending_writes[2], pending_writes[1])

\* C34 witness: the deltas of both branches were merged into a non-empty
\* token_usage; one key was reported by all three deltas, another by one only
C34_Witness ==
    /\ usage_pc = "writes" /\ writes_applied = Branches /\ pending_writes = <<>>
    /\ \E k \in DOMAIN token_usage :
         /\ usage_heap[token_usage[k]].total >= 3
         /\ usage_heap[token_usage[k]].input > 0
         /\ usage_heap[token_usage[k]].output > 0
         /\ \E j \in DOMAIN token_usage \ {k} : usage_heap[token_usage[j]].total = 1

\* C39: a call of merge_usage leaves current and new_data as they were,
\* nested count dicts included.
C39_ArgumentsUnchanged ==
    [][writes_applied' # writes_applied =>
          /\ Value(token_usage, usage_heap') = Value(token_usage, usage_heap)
          /\ Value(Head(pending_writes), usage_heap')
                 = Value(Head(pending_writes), usage_heap)]_vars

\* what the token_usage deltas of the nodes that returned add up to
Reported ==
    LET Of(th) == IF node_threads[th].pc = "done"
                     /\ TrackerKey \in DOMAIN node_threads[th].total_delta
                  THEN node_threads[th].total_delta[TrackerKey]
                  ELSE ZeroCounts
    IN  SumCounts(Of("web_search_node"), Of("academic_node"))

\* C36: when both discovery nodes have returned, every count a tracker
\* recorded is in exactly one of the two token_usage deltas: the deltas add up
\* to what was recorded, no more and no less.
C36_RecordedReportedOnce ==
    (node_threads # <<>> /\ \A th \in NodeThreads : node_threads[th].pc = "done")
        => Reported = recorded

\* C33: the report synthesis_node returns has exactly one section for every
\* question of research_questions, whatever its status, in ascending order of
\* id, and is_complete is true; a section whose write failed holds the
\* placeholder and every other section is written.
C33_OneSectionPerQuestion ==
    synth_pc = "done" =>
        LET fr == synth_return.final_report
        IN  /\ synth_return.is_complete
            /\ Len(fr) = Len(synth_questions)
            /\ \A i, j \in 1..Len(fr) : i < j => fr[i].id <= fr[j].id
            /\ \A id \in 1..MaxSynthQ, st \in Statuses :
                 Cardinality({i \in 1..Len(fr) : fr[i].id = id /\ fr[i].status = st})
                   = Cardinality({i \in 1..Len(synth_questions) :
                                     /\ synth_questions[i].id = id
                                     /\ synth_questions[i].status = st})
            /\ \A i \in 1..Len(fr) :
                 (fr[i].section_text = "Error drafting section") <=> (i \in failed_sections)

\* C33 witness: three questions given out of id order, pending and analyzed
\* ones among them; the write of the second section failed, the first and the
\* third are written
C33_Witness ==
    /\ synth_pc = "done"
    /\ Len(synth_questions) = 3
    /\ \E i, j \in 1..Len(synth_questions) :
         i < j /\ synth_questions[i].id > synth_questions[j].id
    /\ \E i, j \in 1..Len(synth_questions) :
         synth_questions[i].status = "pending" /\ synth_questions[j].status = "analyzed"
    /\ failed_sections = {2}
    /\ synth_return.final_report[1].section_text = "section_text"
    /\ synth_return.final_report[3].section_text = "section_text"
====
